---------------------------- MODULE Spec2Model ----------------------------
(***************************************************************************)
(* A model of the tactical core of protoboard: the flat-array Grid, the    *)
(* cost-bounded path finder, the attack-range iterators, tile capture and  *)
(* the faction rotation of TurnInfo.  Every component has its own          *)
(* specification (SpecPathFinder, SpecRange, ...) over the shared          *)
(* variables; a component that a specification does not exercise stays in  *)
(* its idle value.                                                         *)
(***************************************************************************)
EXTENDS Integers, Sequences, FiniteSets, TLC

VARIABLES
    grid,       \* Grid { size, units, terrain }: flat arrays indexed 0..w*h-1
    finder,     \* the locals of Unit::path_finder while its loop runs
    range,      \* an AttackRange iterator and what it has yielded so far
    pair,       \* the last call of Grid::unit_pair_mut and its result
    turn_info,  \* TurnInfo { factions, current, actions_left, max_actions_left }
    turn_log,   \* the last TurnInfo operation and the state it started from
    tile,       \* Tile { terrain.capture, faction, capture }
    tile_log,   \* the last Tile::capture call, its result, and the running sum
    attackable, \* a FindAttackable iterator and what it has yielded
    scene,      \* the Scene: grid manager, modal stack and message queue
    scene_log,  \* the last message the Scene handled, and what it did
    path,       \* a random_path_rev iterator and what it has yielded
    call        \* the last call of a function of Unit, Grid or GameInfo and its result

vars == <<grid, finder, range, pair, turn_info, turn_log, tile, tile_log,
          attackable, scene, scene_log, path, call>>

---------------------------------------------------------------------------
(* Bounds of the model.                                                    *)

MaxTiles == 6       \* grids have w * h <= MaxTiles tiles
MaxMountains == 2   \* at most this many Mountain tiles in a layout
MaxOthers == 1      \* at most this many units besides the acting one
MaxMovement == 4    \* movement budgets 0..MaxMovement
MaxSide == 4        \* unit-free square grids have w, h <= MaxSide
MaxRange == 3       \* attack ranges (min, max, range) are 0..MaxRange
MaxFactions == 4    \* faction lists have 1..MaxFactions entries
MaxActions == 2     \* the action budget per turn is 0..MaxActions
MaxThreshold == 3   \* small capture thresholds and amounts are 0..MaxThreshold
MaxCalls == 4       \* at most this many Tile::capture calls in a run
MaxTargets == 2     \* find_attackable: at most this many units besides the attacker
MaxAttackTiles == 5 \* find_attackable: grids have w * h <= MaxAttackTiles tiles
MaxInputs == 1      \* the Scene takes at most this many input messages per frame
MaxSceneTiles == 3  \* games are played on grids of w * h <= MaxSceneTiles tiles
MaxSceneUnits == 3  \* games start with at most this many units
MaxBurstInputs == 2 \* a frame of a small game takes at most this many input messages
MaxBurstTiles == 2  \* small games are played on grids of at most this many tiles
MaxMovedTiles == 4  \* a unit arrives on a grid of at most this many tiles
MaxHealth == 10      \* healths run from 0 to this
MaxBase == 3         \* base damages run from -1 to this
MaxModifier == 12    \* damage modifiers, in tenths, run from 0 to this
MaxBonus == 15       \* defense bonuses, in tenths, run from 0 to this
MaxTerrains == 2     \* a game spec names at most this many terrains
MaxClasses == 2      \* ... and at most this many movement classes
MaxRoles == 2        \* ... and at most this many roles

\* u32::MAX, scaled down to the model's word: every u32 of the model is in
\* 0..WordMax, and saturating arithmetic saturates there.
WordMax == 63

\* u32::saturating_add
SatAdd(a, b) == IF a + b > WordMax THEN WordMax ELSE a + b

\* Option<T>, and the outcome of a call that aborts (panic!, a failed assert!).
None == <<"None">>
Some(v) == <<"Some", v>>
IsSome(o) == o[1] = "Some"
Unwrap(o) == o[2]
Panic == <<"Panic">>

\* enum Faction
Factions == {"Red", "Blue"}

Min(S) == CHOOSE m \in S : \A n \in S : m <= n

Abs(n) == IF n < 0 THEN -n ELSE n

---------------------------------------------------------------------------
(* Grid (grid.rs): size, and the flat unit and terrain arrays.             *)

Sizes == {s \in (1..MaxTiles) \X (1..MaxTiles) : s[1] * s[2] <= MaxTiles}

Count(size) == size[1] * size[2]

Positions(size) == (0..(size[1] - 1)) \X (0..(size[2] - 1))

InBounds(size, x, y) == 0 <= x /\ x < size[1] /\ 0 <= y /\ y < size[2]

\* Grid::index: y * w + x (the assertion x < w && y < h holds for every
\* position the model passes).
Index(g, pos) == pos[2] * g.size[1] + pos[1]

\* Grid::tile / Grid::unit
GridUnit(g, pos) == g.units[Index(g, pos)]
GridTerrain(g, pos) == g.terrain[Index(g, pos)]

\* Grid::new: no units, all Grass.
GridNew(size) ==
    [size |-> size,
     units |-> [i \in 0..(Count(size) - 1) |-> None],
     terrain |-> [i \in 0..(Count(size) - 1) |-> "Grass"]]

MkUnit(f) == [faction |-> f]

\* The unit arrays a level can build on a grid of the given size: at most
\* MaxOthers + 1 units, of any faction.
Placements(size) ==
    {u \in [0..(Count(size) - 1) -> {None} \cup {Some(MkUnit(f)) : f \in Factions}] :
        Cardinality({i \in DOMAIN u : u[i] # None}) <= MaxOthers + 1}

\* The terrain arrays: any layout with at most MaxMountains Mountain tiles.
Layouts(size) ==
    {t \in [0..(Count(size) - 1) -> {"Grass", "Mountain"}] :
        Cardinality({i \in DOMAIN t : t[i] = "Mountain"}) <= MaxMountains}

\* The grid of a level: the given size, unit array and terrain array.
GridOf(size, units, terrain) == [size |-> size, units |-> units, terrain |-> terrain]

GridIdle == GridNew(<<1, 1>>)

---------------------------------------------------------------------------
(* Unit::path_finder (unit.rs).                                            *)

\* Unit::terrain_cost
terrain_cost(terrain) == IF terrain = "Grass" THEN 1 ELSE 3

\* The (dx, dy) of the match on dir.
PathDir(dir) ==
    CASE dir = 0 -> <<1, 0>>
      [] dir = 1 -> <<0, 1>>
      [] dir = 2 -> <<-1, 0>>
      [] dir = 3 -> <<0, -1>>

\* The faction test with no tile ever skipped.
PathBlockedNever(g, faction, npos) == FALSE

\* `if let Some(unit) = unit { if unit.faction != self.faction { continue } }`
PathBlocked(g, faction, npos) ==
    /\ IsSome(GridUnit(g, npos))
    /\ Unwrap(GridUnit(g, npos)).faction # faction

\* The match on costs.entry(npos) with the Occupied arm never lowering a
\* recorded cost.
PathImprovesVacantOnly(costs, npos, ncost) == npos \notin DOMAIN costs

\* The match on costs.entry(npos) with the Occupied arm also recording (and
\* pushing) a cost equal to the recorded one.
PathImprovesOnEqual(costs, npos, ncost) ==
    \/ npos \notin DOMAIN costs
    \/ costs[npos] >= ncost

\* The match on costs.entry(npos): TRUE when ncost is recorded (and npos is
\* pushed), FALSE on the `continue` of the Occupied arm.
PathImproves(costs, npos, ncost) ==
    \/ npos \notin DOMAIN costs
    \/ costs[npos] > ncost

\* The inner `loop` of path_finder for the popped ((x, y), cost), from
\* direction dir on; st holds costs and to_be_searched.
RECURSIVE PathVisit(_, _, _, _, _, _, _)
PathVisit(g, faction, movement, pos, cost, dir, st) ==
    IF dir > 3 THEN st
    ELSE
        LET nx == pos[1] + PathDir(dir)[1]
            ny == pos[2] + PathDir(dir)[2]
            npos == <<nx, ny>>
            ncost == SatAdd(cost, terrain_cost(GridTerrain(g, npos)))
        IN  IF ~InBounds(g.size, nx, ny)
            THEN PathVisit(g, faction, movement, pos, cost, dir + 1, st)
            ELSE IF PathBlocked(g, faction, npos)
            THEN PathVisit(g, faction, movement, pos, cost, dir + 1, st)
            ELSE IF ncost > movement
            THEN PathVisit(g, faction, movement, pos, cost, dir + 1, st)
            ELSE IF ~PathImproves(st.costs, npos, ncost)
            THEN PathVisit(g, faction, movement, pos, cost, dir + 1, st)
            ELSE PathVisit(g, faction, movement, pos, cost, dir + 1,
                    [costs |-> [p \in DOMAIN st.costs \cup {npos} |->
                                    IF p = npos THEN ncost ELSE st.costs[p]],
                     to_be_searched |-> Append(st.to_be_searched, <<npos, ncost>>)])

\* The empty BTreeMap.
EmptyMap == [p \in {} |-> 0]

\* `let mut to_be_searched = vec![(pos, 0u32)]; let mut costs = BTreeMap::new();`
PathFinderStart(unit, movement, pos) ==
    [pc |-> "loop", faction |-> unit.faction, movement |-> movement, pos |-> pos,
     to_be_searched |-> <<<<pos, 0>>>>, costs |-> EmptyMap]

FinderIdle ==
    [pc |-> "idle", faction |-> "Red", movement |-> 0, pos |-> <<0, 0>>,
     to_be_searched |-> <<>>, costs |-> EmptyMap]

\* One iteration of `while let Some(((x, y), cost)) = to_be_searched.pop()`.
PathFinderPop ==
    /\ finder.pc = "loop"
    /\ finder.to_be_searched # <<>>
    /\ LET n == Len(finder.to_be_searched)
           top == finder.to_be_searched[n]
           st == PathVisit(grid, finder.faction, finder.movement, top[1], top[2], 0,
                    [costs |-> finder.costs,
                     to_be_searched |-> SubSeq(finder.to_be_searched, 1, n - 1)])
       IN  finder' = [finder EXCEPT !.costs = st.costs,
                                    !.to_be_searched = st.to_be_searched]
    /\ UNCHANGED <<grid, range, pair, turn_info, turn_log, tile, tile_log,
                   attackable, scene, scene_log, path, call>>

\* The work list is empty: `PathFinder { costs: costs }` is returned.
PathFinderReturn ==
    /\ finder.pc = "loop"
    /\ finder.to_be_searched = <<>>
    /\ finder' = [finder EXCEPT !.pc = "done"]
    /\ UNCHANGED <<grid, range, pair, turn_info, turn_log, tile, tile_log,
                   attackable, scene, scene_log, path, call>>

\* The `while let` loop of path_finder run to its end: the returned costs.
RECURSIVE PathFinderLoop(_, _, _, _)
PathFinderLoop(g, faction, movement, st) ==
    IF st.to_be_searched = <<>> THEN st.costs
    ELSE
        LET n == Len(st.to_be_searched)
            top == st.to_be_searched[n]
        IN  PathFinderLoop(g, faction, movement,
                PathVisit(g, faction, movement, top[1], top[2], 0,
                    [costs |-> st.costs,
                     to_be_searched |-> SubSeq(st.to_be_searched, 1, n - 1)]))

\* Unit::path_finder: the cost map of the returned PathFinder.
path_finder(g, unit, movement, pos) ==
    PathFinderLoop(g, unit.faction, movement,
        [costs |-> EmptyMap, to_be_searched |-> <<<<pos, 0>>>>])

\* PathFinder::random_path_rev(target): the iterator as constructed.  It
\* walks from target back to the origin; `yielded` holds the tiles returned
\* so far.
random_path_rev(origin, target) ==
    [origin |-> origin, target |-> target, cur |-> target, yielded |-> <<>>,
     status |-> "running"]

PathIdle == [random_path_rev(<<0, 0>>, <<0, 0>>) EXCEPT !.status = "idle"]

\* The orthogonal neighbours of tile p mapped with a strictly lower cost.
LowerNeighbours(costs, p) ==
    {n \in DOMAIN costs :
        /\ Abs(n[1] - p[1]) + Abs(n[2] - p[2]) = 1
        /\ costs[n] < costs[p]}

\* One call of next() on the random_path_rev iterator: None at the origin,
\* otherwise the current tile, stepping to any strictly-lower-cost
\* neighbour; a tile other than the origin without one is fatal.
RandomPathRevNext ==
    /\ path.status = "running"
    /\ IF path.cur = path.origin
       THEN path' = [path EXCEPT !.status = "finished"]
       ELSE IF LowerNeighbours(finder.costs, path.cur) = {}
       THEN path' = [path EXCEPT !.status = "aborted"]
       ELSE \E n \in LowerNeighbours(finder.costs, path.cur) :
                path' = [path EXCEPT !.cur = n,
                                     !.yielded = Append(path.yielded, path.cur)]
    /\ UNCHANGED <<grid, finder, range, pair, turn_info, turn_log, tile, tile_log,
                   attackable, scene, scene_log, call>>

---------------------------------------------------------------------------
(* AttackRange and its iterators (attack_range.rs).                        *)

Sign(n) == IF n > 0 THEN 1 ELSE IF n < 0 THEN -1 ELSE 0

\* AttackRange::empty / melee / ranged / spear: the iterator as constructed.
\* One record shape serves the four kinds; a kind ignores the fields it
\* does not have.
RangeEmpty ==
    [kind |-> "Empty", pos |-> <<0, 0>>, min |-> 0, max |-> 0, cur |-> <<0, 0>>,
     state |-> 0, dist |-> 0, unit |-> None]

RangeMelee(pos) ==
    [kind |-> "Melee", pos |-> pos, min |-> 0, max |-> 0, cur |-> <<0, 0>>,
     state |-> 0, dist |-> 0, unit |-> None]

RangeRanged(pos, min, max) ==
    [kind |-> "Ranged", pos |-> pos, min |-> min, max |-> 0, cur |-> <<0, max>>,
     state |-> 0, dist |-> 0, unit |-> None]

RangeSpear(unit, pos, max) ==
    [kind |-> "Spear", pos |-> pos, min |-> 0, max |-> max, cur |-> <<0, 0>>,
     state |-> 0, dist |-> 0, unit |-> Some(unit)]

\* The (dx, dy) of the match on self.state in Melee::next and Spear::next.
RayDir(state) ==
    CASE state = 0 -> <<0, 1>>
      [] state = 1 -> <<1, 0>>
      [] state = 2 -> <<0, -1>>
      [] state = 3 -> <<-1, 0>>

\* Melee::next without the bounds test on the neighbour.
MeleeNextUnclipped(g, it) ==
    IF it.state > 3 THEN [it |-> it, out |-> None]
    ELSE [it |-> [it EXCEPT !.state = it.state + 1],
          out |-> Some(<<it.pos[1] + RayDir(it.state)[1],
                         it.pos[2] + RayDir(it.state)[2]>>)]

\* Melee::next.  The result is the iterator after the call and what the
\* call returned: Some(pos), None, or "Panic" when the call aborts.
RECURSIVE MeleeNext(_, _)
MeleeNext(g, it) ==
    IF it.state > 3 THEN [it |-> it, out |-> None]
    ELSE
        LET nx == it.pos[1] + RayDir(it.state)[1]
            ny == it.pos[2] + RayDir(it.state)[2]
            it2 == [it EXCEPT !.state = it.state + 1]
        IN  IF InBounds(g.size, nx, ny)
            THEN [it |-> it2, out |-> Some(<<nx, ny>>)]
            ELSE MeleeNext(g, it2)

\* The match on (dx.signum(), dy.signum()) in Ranged::next; <<0, 0>> is the
\* `_ => unreachable!()` arm and has no successor.
RangedTurn(dx, dy) ==
    LET sg == <<Sign(dx), Sign(dy)>>
    IN  CASE sg \in {<<0, 1>>, <<1, 1>>} -> <<dx + 1, dy - 1>>
          [] sg \in {<<1, 0>>, <<1, -1>>} -> <<dx - 1, dy - 1>>
          [] sg \in {<<0, -1>>, <<-1, -1>>} -> <<dx - 1, dy + 1>>
          [] sg \in {<<-1, 0>>, <<-1, 1>>} ->
                IF dx = -1 THEN <<dx + 1, dy>> ELSE <<dx + 1, dy + 1>>

\* Ranged::next returning an in-bounds tile without storing the advanced cur.
RECURSIVE RangedNextInPlace(_, _)
RangedNextInPlace(g, it) ==
    IF it.cur = <<0, it.min - 1>> THEN [it |-> it, out |-> None]
    ELSE
        LET dx == it.cur[1]
            dy == it.cur[2]
            nx == it.pos[1] + dx
            ny == it.pos[2] + dy
        IN  IF Sign(dx) = 0 /\ Sign(dy) = 0
            THEN [it |-> it, out |-> Panic]
            ELSE IF InBounds(g.size, nx, ny)
            THEN [it |-> it, out |-> Some(<<nx, ny>>)]
            ELSE RangedNextInPlace(g, [it EXCEPT !.cur = RangedTurn(dx, dy)])

\* Ranged::next
RECURSIVE RangedNext(_, _)
RangedNext(g, it) ==
    IF it.cur = <<0, it.min - 1>> THEN [it |-> it, out |-> None]
    ELSE
        LET dx == it.cur[1]
            dy == it.cur[2]
            nx == it.pos[1] + dx
            ny == it.pos[2] + dy
        IN  IF Sign(dx) = 0 /\ Sign(dy) = 0
            THEN [it |-> it, out |-> Panic]
            ELSE
                LET it2 == [it EXCEPT !.cur = RangedTurn(dx, dy)]
                IN  IF InBounds(g.size, nx, ny)
                    THEN [it |-> it2, out |-> Some(<<nx, ny>>)]
                    ELSE RangedNext(g, it2)

\* Unit::can_spear_through: a spear passes allies only.
can_spear_through(unit, other) == unit.faction = other.faction

\* Spear::next with the ray not ended at a blocking tile.
RECURSIVE SpearNextThroughBlocker(_, _)
SpearNextThroughBlocker(g, it) ==
    IF it.state > 3 THEN [it |-> it, out |-> None]
    ELSE IF it.dist >= it.max
    THEN SpearNextThroughBlocker(g, [it EXCEPT !.state = it.state + 1, !.dist = 0])
    ELSE
        LET dist == it.dist + 1
            nx == it.pos[1] + RayDir(it.state)[1] * dist
            ny == it.pos[2] + RayDir(it.state)[2] * dist
        IN  IF ~InBounds(g.size, nx, ny)
            THEN SpearNextThroughBlocker(g, [it EXCEPT !.dist = dist])
            ELSE [it |-> [it EXCEPT !.dist = dist], out |-> Some(<<nx, ny>>)]

\* Spear::next
RECURSIVE SpearNext(_, _)
SpearNext(g, it) ==
    IF it.state > 3 THEN [it |-> it, out |-> None]
    ELSE IF it.dist >= it.max
    THEN SpearNext(g, [it EXCEPT !.state = it.state + 1, !.dist = 0])
    ELSE
        LET dist == it.dist + 1
            nx == it.pos[1] + RayDir(it.state)[1] * dist
            ny == it.pos[2] + RayDir(it.state)[2] * dist
            res == <<nx, ny>>
        IN  IF ~InBounds(g.size, nx, ny)
            THEN SpearNext(g, [it EXCEPT !.dist = dist])
            ELSE IF /\ IsSome(GridUnit(g, res))
                    /\ ~can_spear_through(Unwrap(it.unit), Unwrap(GridUnit(g, res)))
            THEN [it |-> [it EXCEPT !.state = it.state + 1, !.dist = 0],
                  out |-> Some(res)]
            ELSE [it |-> [it EXCEPT !.dist = dist], out |-> Some(res)]

\* AttackRange::next: dispatch on the kind.
AttackRangeNext(g, it) ==
    CASE it.kind = "Empty" -> [it |-> it, out |-> None]
      [] it.kind = "Melee" -> MeleeNext(g, it)
      [] it.kind = "Ranged" -> RangedNext(g, it)
      [] it.kind = "Spear" -> SpearNext(g, it)

\* range: the iterator, the tiles it has yielded, whether the enumeration is
\* running, finished (next() returned None) or aborted, and the min and max
\* (or range) the iterator was constructed with.
RangeStart(it, min, max) ==
    [it |-> it, yielded |-> <<>>, status |-> "running", min |-> min, max |-> max]

RangeIdle == [RangeStart(RangeEmpty, 0, 0) EXCEPT !.status = "idle"]

\* A caller's `for pos in range`: one call of next(); the loop ends at None,
\* the program at a panic.
RangeNext ==
    /\ range.status = "running"
    /\ LET r == AttackRangeNext(grid, range.it)
       IN  range' =
             IF r.out = None THEN [range EXCEPT !.it = r.it, !.status = "finished"]
             ELSE IF r.out = Panic THEN [range EXCEPT !.status = "aborted"]
             ELSE [range EXCEPT !.it = r.it,
                                !.yielded = Append(range.yielded, Unwrap(r.out))]
    /\ UNCHANGED <<grid, finder, pair, turn_info, turn_log, tile, tile_log,
                   attackable, scene, scene_log, path, call>>

---------------------------------------------------------------------------
(* Grid::unit_pair_mut (grid.rs).                                          *)

\* The result names the two slots of `units` the returned references point
\* to: Some(<<first, last>>), None, or Panic when an index is out of range.
unit_pair_mut(g, a, b) ==
    IF a = b THEN None
    ELSE
        LET i0 == Index(g, a)
            j0 == Index(g, b)
            i == IF i0 < j0 THEN i0 ELSE j0
            j == IF i0 < j0 THEN j0 ELSE i0
        IN  \* self.units[..j] holds the slots 0..j-1
            IF j = 0 THEN None              \* split_last_mut of an empty slice
            ELSE \* last is slot j-1, rest holds the slots 0..j-2
                 IF i >= j - 1 THEN Panic   \* rest[i]: index out of bounds
                 ELSE Some(<<i, j - 1>>)

PairIdle == [called |-> FALSE, a |-> <<0, 0>>, b |-> <<0, 0>>, out |-> None]

\* GridManager::handle, AttackWithUnit(pos, target): the call
\* `self.grid.unit_pair_mut(pos, target)`.
UnitPairMutCall ==
    /\ ~pair.called
    /\ \E a \in Positions(grid.size), b \in Positions(grid.size) :
          pair' = [called |-> TRUE, a |-> a, b |-> b, out |-> unit_pair_mut(grid, a, b)]
    /\ UNCHANGED <<grid, finder, range, turn_info, turn_log, tile, tile_log,
                   attackable, scene, scene_log, path, call>>

---------------------------------------------------------------------------
(* TurnInfo (common.rs).  `factions` is a sequence; `current` is the       *)
(* 0-based index of the code, so the current entry is factions[current+1]. *)

\* State::new
TurnInfoNew(factions, actions_left) ==
    [factions |-> factions, current |-> 0,
     actions_left |-> actions_left, max_actions_left |-> actions_left]

\* TurnInfo::current_faction: `self.factions[self.current]`
current_faction(ti) ==
    IF ti.current < Len(ti.factions) THEN ti.factions[ti.current + 1] ELSE "Panic"

\* end_turn that passes the turn to the entry after the next one.
end_turn_skipping(ti) ==
    IF Len(ti.factions) = 0
    THEN [ti EXCEPT !.actions_left = ti.max_actions_left, !.current = -1]
    ELSE [ti EXCEPT !.actions_left = ti.max_actions_left,
                    !.current = (ti.current + 2) % Len(ti.factions)]

\* TurnInfo::end_turn; on an empty list the % is a division by zero, which
\* leaves the marker current = -1 (the program has aborted).
end_turn(ti) ==
    IF Len(ti.factions) = 0
    THEN [ti EXCEPT !.actions_left = ti.max_actions_left, !.current = -1]
    ELSE [ti EXCEPT !.actions_left = ti.max_actions_left,
                    !.current = (ti.current + 1) % Len(ti.factions)]

\* TurnInfo::spend_action, past its assertion
spend_action(ti) ==
    [ti EXCEPT !.actions_left = IF ti.actions_left >= 1 THEN ti.actions_left - 1 ELSE 0]

\* `self.factions.iter().rposition(|&f| f == faction)`, 0-based; -1 for None
RPosition(factions, faction) ==
    LET hits == {k \in 1..Len(factions) : factions[k] = faction}
    IN  IF hits = {} THEN -1 ELSE (CHOOSE k \in hits : \A m \in hits : m <= k) - 1

\* Vec::remove(i), i 0-based
VecRemove(v, i) == SubSeq(v, 1, i) \o SubSeq(v, i + 2, Len(v))

\* RemoveAdjust with `current > i` for `current >= i`.
RemoveAdjustStrict(current, i, len) ==
    IF current > i
    THEN IF len = 0 THEN -1 ELSE (current + len - 1) % len
    ELSE current

\* RemoveAdjust with no correction at all.
RemoveAdjustNever(current, i, len) == current

\* RemoveAdjust that makes the entry after a removed current entry current
\* at once.
RemoveAdjustToNext(current, i, len) ==
    IF current > i THEN current - 1
    ELSE IF current = i THEN (IF len = 0 THEN -1 ELSE current % len)
    ELSE current

\* The correction of `current` after the entry at i was removed; len is the
\* length after the removal.  A zero len is a division by zero.
RemoveAdjust(current, i, len) ==
    IF current >= i
    THEN IF len = 0 THEN -1 ELSE (current + len - 1) % len
    ELSE current

\* TurnInfo::remove_faction: the `while let` loop.  A division by zero
\* leaves the marker current = -1 (the program has aborted).
RECURSIVE remove_faction(_, _)
remove_faction(ti, faction) ==
    LET i == RPosition(ti.factions, faction)
    IN  IF i = -1 \/ ti.current = -1 THEN ti
        ELSE LET rest == VecRemove(ti.factions, i)
             IN  remove_faction([ti EXCEPT !.factions = rest,
                                           !.current = RemoveAdjust(ti.current, i, Len(rest))],
                                faction)

TurnIdle == TurnInfoNew(<<"Red">>, 0)

LogNone == [op |-> "none", arg |-> "none", before |-> TurnIdle]

\* turn_log: the last operation (op, arg, before) and the one before it;
\* `turns` holds the value of `current` before each of the last (at most
\* MaxFactions) end_turn calls that no other operation has interrupted.
TurnLogIdle == [last |-> LogNone, prev |-> LogNone, turns |-> <<>>]

Logged(op, arg) ==
    [last |-> [op |-> op, arg |-> arg, before |-> turn_info], prev |-> turn_log.last,
     turns |-> IF op # "end_turn" THEN <<>>
               ELSE IF Len(turn_log.turns) < MaxFactions
               THEN Append(turn_log.turns, turn_info.current)
               ELSE Append(Tail(turn_log.turns), turn_info.current)]

TurnAborted == turn_info.current = -1

\* FinishTurn: state.turn_info.end_turn()
EndTurn ==
    /\ ~TurnAborted
    /\ turn_info' = end_turn(turn_info)
    /\ turn_log' = Logged("end_turn", "none")
    /\ UNCHANGED <<grid, finder, range, pair, tile, tile_log,
                   attackable, scene, scene_log, path, call>>

\* UnitSpent: state.turn_info.spend_action(); the assertion needs a budget.
SpendAction ==
    /\ ~TurnAborted
    /\ turn_info.actions_left > 0
    /\ turn_info' = spend_action(turn_info)
    /\ turn_log' = Logged("spend_action", "none")
    /\ UNCHANGED <<grid, finder, range, pair, tile, tile_log,
                   attackable, scene, scene_log, path, call>>

\* Scene::update / FactionDefeated: state.turn_info.remove_faction(faction)
RemoveFaction ==
    /\ ~TurnAborted
    /\ \E f \in Factions :
          /\ turn_info' = remove_faction(turn_info, f)
          /\ turn_log' = Logged("remove_faction", f)
    /\ UNCHANGED <<grid, finder, range, pair, tile, tile_log,
                   attackable, scene, scene_log, path, call>>

---------------------------------------------------------------------------
(* Tile (tile.rs).  terrain_capture is self.terrain.capture, the capture   *)
(* threshold of the tile's terrain.                                        *)

\* Tile::capture with `value > self.terrain.capture`.
captureStrict(t, faction, amount) ==
    IF IsSome(t.capture) /\ Unwrap(t.capture)[1] # faction
    THEN [tile |-> t, out |-> Panic]
    ELSE
        LET value == IF IsSome(t.capture)
                     THEN SatAdd(Unwrap(t.capture)[2], amount)
                     ELSE amount
        IN  IF value > t.terrain_capture
            THEN [tile |-> [t EXCEPT !.faction = Some(faction), !.capture = None],
                  out |-> Some(TRUE)]
            ELSE [tile |-> [t EXCEPT !.capture = Some(<<faction, value>>)],
                  out |-> Some(FALSE)]

\* Tile::capture.  The result is the tile after the call and the returned
\* bool, or out = Panic when assert_eq!(prev_faction, faction) fails.
capture(t, faction, amount) ==
    IF IsSome(t.capture) /\ Unwrap(t.capture)[1] # faction
    THEN [tile |-> t, out |-> Panic]
    ELSE
        LET value == IF IsSome(t.capture)
                     THEN SatAdd(Unwrap(t.capture)[2], amount)
                     ELSE amount
        IN  IF value >= t.terrain_capture
            THEN [tile |-> [t EXCEPT !.faction = Some(faction), !.capture = None],
                  out |-> Some(TRUE)]
            ELSE [tile |-> [t EXCEPT !.capture = Some(<<faction, value>>)],
                  out |-> Some(FALSE)]

\* The u32 values the model draws thresholds and amounts from: the small
\* ones and the two largest.
Amounts == (0..MaxThreshold) \cup {WordMax - 1, WordMax}

TileIdle == [terrain_capture |-> 0, faction |-> None, capture |-> None]

\* tile_log: the number of calls made, the last call (faction, amount, the
\* tile before it, what it returned) and `sum`, the amounts of the calls
\* since the last call that returned true, this call included (a plain sum,
\* not saturated).
TileLogIdle ==
    [calls |-> 0, faction |-> "Red", amount |-> 0, before |-> TileIdle,
     out |-> None, sum |-> 0]

\* A unit of `faction` captures on the tile: tile.capture(faction, amount).
TileCapture ==
    /\ tile_log.out # Panic
    /\ tile_log.calls < MaxCalls
    /\ \E f \in Factions, amount \in Amounts :
          LET r == capture(tile, f, amount)
          IN  /\ tile' = r.tile
              /\ tile_log' =
                    [calls |-> tile_log.calls + 1, faction |-> f, amount |-> amount,
                     before |-> tile, out |-> r.out,
                     sum |-> IF tile_log.out = Some(FALSE)
                             THEN tile_log.sum + amount
                             ELSE amount]
    /\ UNCHANGED <<grid, finder, range, pair, turn_info, turn_log,
                   attackable, scene, scene_log, path, call>>

---------------------------------------------------------------------------
(* TilesInRange (unit.rs) and FindAttackable (grid.rs).                     *)

\* enum AttackType; one record shape serves the three variants.
AttackMelee == [kind |-> "Melee", min |-> 0, max |-> 0]
AttackRanged(min, max) == [kind |-> "Ranged", min |-> min, max |-> max]
AttackSpear(r) == [kind |-> "Spear", min |-> 0, max |-> r]

\* AttackType::tiles_in_range
tiles_in_range(attack, pos, size) ==
    LET mm == CASE attack.kind = "Melee" -> <<1, 1>>
                [] attack.kind = "Ranged" -> <<attack.min, attack.max>>
                [] attack.kind = "Spear" -> <<1, attack.max>>
    IN  [pos |-> pos, cur |-> <<0, mm[2]>>, size |-> size, min |-> mm[1]]

\* TilesInRange::next: the iterator after the call and what it returned
\* (Some(pos), None, or Panic at the `unreachable!()` arm of the match).
RECURSIVE TilesInRangeNext(_)
TilesInRangeNext(it) ==
    IF it.cur = <<0, it.min - 1>> THEN [it |-> it, out |-> None]
    ELSE
        LET dx == it.cur[1]
            dy == it.cur[2]
            tx == it.pos[1] + dx
            ty == it.pos[2] + dy
        IN  IF Sign(dx) = 0 /\ Sign(dy) = 0
            THEN [it |-> it, out |-> Panic]
            ELSE
                LET it2 == [it EXCEPT !.cur = RangedTurn(dx, dy)]
                IN  IF InBounds(it.size, tx, ty)
                    THEN [it |-> it2, out |-> Some(<<tx, ty>>)]
                    ELSE TilesInRangeNext(it2)

\* Grid::find_attackable
find_attackable(g, unit, attack, pos) ==
    [unit |-> unit, tiles |-> tiles_in_range(attack, pos, g.size)]

\* FindAttackable::next with the faction test dropped.
RECURSIVE FindAttackableNextAnyUnit(_, _)
FindAttackableNextAnyUnit(g, fa) ==
    LET r == TilesInRangeNext(fa.tiles)
    IN  IF r.out = None THEN [it |-> [fa EXCEPT !.tiles = r.it], out |-> None]
        ELSE IF r.out = Panic THEN [it |-> fa, out |-> Panic]
        ELSE IF IsSome(GridUnit(g, Unwrap(r.out)))
        THEN [it |-> [fa EXCEPT !.tiles = r.it],
              out |-> Some(<<Unwrap(r.out), Unwrap(GridUnit(g, Unwrap(r.out)))>>)]
        ELSE FindAttackableNextAnyUnit(g, [fa EXCEPT !.tiles = r.it])

\* FindAttackable::next
RECURSIVE FindAttackableNext(_, _)
FindAttackableNext(g, fa) ==
    LET r == TilesInRangeNext(fa.tiles)
    IN  IF r.out = None THEN [it |-> [fa EXCEPT !.tiles = r.it], out |-> None]
        ELSE IF r.out = Panic THEN [it |-> fa, out |-> Panic]
        ELSE IF /\ IsSome(GridUnit(g, Unwrap(r.out)))
                /\ Unwrap(GridUnit(g, Unwrap(r.out))).faction # fa.unit.faction
        THEN [it |-> [fa EXCEPT !.tiles = r.it],
              out |-> Some(<<Unwrap(r.out), Unwrap(GridUnit(g, Unwrap(r.out)))>>)]
        ELSE FindAttackableNext(g, [fa EXCEPT !.tiles = r.it])

\* attackable: the iterator as constructed and as it is now, the
\* (pos, unit) pairs it has yielded, and whether the enumeration is running,
\* finished or aborted.
AttackableStart(fa) ==
    [start |-> fa, it |-> fa, yielded |-> <<>>, status |-> "running"]

AttackableIdle ==
    [AttackableStart(find_attackable(GridIdle, MkUnit("Red"), AttackMelee, <<0, 0>>))
        EXCEPT !.status = "idle"]

\* A caller's `for (pos, unit) in grid.find_attackable(unit, pos)`: one call
\* of next().
FindAttackableStep ==
    /\ attackable.status = "running"
    /\ LET r == FindAttackableNext(grid, attackable.it)
       IN  attackable' =
             IF r.out = None
             THEN [attackable EXCEPT !.it = r.it, !.status = "finished"]
             ELSE IF r.out = Panic THEN [attackable EXCEPT !.status = "aborted"]
             ELSE [attackable EXCEPT !.it = r.it,
                                     !.yielded = Append(attackable.yielded, Unwrap(r.out))]
    /\ UNCHANGED <<grid, finder, range, pair, turn_info, turn_log, tile, tile_log,
                   scene, scene_log, path, call>>

---------------------------------------------------------------------------
(* The Scene (scene.rs) and its GridManager (grid_manager.rs).             *)

\* The unit kinds of a game: attack type, attack power (base damage times
\* modifier), defense in tenths, and movement budget.
UnitKinds == {"Warrior", "Archer", "Raccoon"}

KindInfo(kind) ==
    CASE kind = "Warrior" ->
            [attack |-> AttackMelee, power |-> 4, defense |-> 2, movement |-> 2]
      [] kind = "Archer" ->
            [attack |-> AttackRanged(2, 3), power |-> 5, defense |-> 0, movement |-> 1]
      [] kind = "Raccoon" ->
            [attack |-> AttackSpear(2), power |-> 5, defense |-> 0, movement |-> 2]

\* The healths units start a game with (full health is 10).
HealthLevels == {3, 10}

\* A unit of a game.
GameUnit(faction, kind, health) ==
    [faction |-> faction, kind |-> kind, health |-> health, spent |-> FALSE]

\* Grid::units: the units on the grid.
GridUnits(g) == {Unwrap(g.units[i]) : i \in {j \in DOMAIN g.units : g.units[j] # None}}

\* The grid with the slot of pos set to u (Some(unit) or None).
GridSet(g, pos, u) == [g EXCEPT !.units[Index(g, pos)] = u]

\* Grid::path_finder(pos): the cost map of the unit on pos, the origin
\* mapped with cost 0 and every other tile by the search of
\* Unit::path_finder.
GridPathFinder(g, pos) ==
    LET unit == Unwrap(GridUnit(g, pos))
    IN  PathFinderLoop(g, unit.faction, KindInfo(unit.kind).movement,
            [costs |-> [p \in {pos} |-> 0], to_be_searched |-> <<<<pos, 0>>>>])

\* PathFinder::can_move_to
can_move_to(costs, pos) == pos \in DOMAIN costs

\* Every sequence random_path_rev(target) can yield, front to back; a
\* walk that gets stuck ends with the tile <<-1, -1>>.
RECURSIVE RevPaths(_, _, _)
RevPaths(costs, origin, cur) ==
    IF cur = origin THEN {<<>>}
    ELSE IF LowerNeighbours(costs, cur) = {} THEN {<<<<-1, -1>>>>}
    ELSE UNION {{<<cur>> \o rest : rest \in RevPaths(costs, origin, n)} :
                    n \in LowerNeighbours(costs, cur)}

\* `path.reverse()`
Reverse(q) == [k \in 1..Len(q) |-> q[Len(q) + 1 - k]]

\* The range a unit attacks in from pos before it has moved, and after:
\* a ranged unit that has moved attacks nothing.
attack_range_before_moving(unit, pos) ==
    LET a == KindInfo(unit.kind).attack
    IN  CASE a.kind = "Melee" -> RangeMelee(pos)
          [] a.kind = "Ranged" -> RangeRanged(pos, a.min, a.max)
          [] a.kind = "Spear" -> RangeSpear(unit, pos, a.max)

attack_range_after_moving(unit, pos) ==
    IF KindInfo(unit.kind).attack.kind = "Ranged" THEN RangeEmpty
    ELSE attack_range_before_moving(unit, pos)

\* Grid::attack_range_when_retaliating: the range before moving.
attack_range_when_retaliating(defender, target) ==
    attack_range_before_moving(defender, target)

\* Unit::can_attack: units of another faction.
can_attack(unit, other) == unit.faction # other.faction

\* find_attackable_before_moving / _after_moving collected: the tiles of
\* the range holding a unit the attacker can attack, in order, or Panic.
RECURSIVE FindAttackableCollect(_, _, _, _)
FindAttackableCollect(g, unit, it, acc) ==
    LET r == AttackRangeNext(g, it)
    IN  IF r.out = None THEN Some(acc)
        ELSE IF r.out = Panic THEN Panic
        ELSE IF /\ IsSome(GridUnit(g, Unwrap(r.out)))
                /\ can_attack(unit, Unwrap(GridUnit(g, Unwrap(r.out))))
        THEN FindAttackableCollect(g, unit, r.it, Append(acc, Unwrap(r.out)))
        ELSE FindAttackableCollect(g, unit, r.it, acc)

\* Targets that uses the pre-move range whether or not the unit has moved.
TargetsBeforeMoving(g, origin, pos) ==
    FindAttackableCollect(g, Unwrap(GridUnit(g, pos)),
        attack_range_before_moving(Unwrap(GridUnit(g, pos)), pos), <<>>)

\* The targets of the unit on pos that came from origin.
Targets(g, origin, pos) ==
    LET unit == Unwrap(GridUnit(g, pos))
    IN  FindAttackableCollect(g, unit,
            IF pos = origin THEN attack_range_before_moving(unit, pos)
            ELSE attack_range_after_moving(unit, pos),
            <<>>)

\* `range.any(|p| p == pos)`: Some(TRUE) at the first tile equal to pos,
\* Some(FALSE) when the range ends without one, Panic when it aborts.
RECURSIVE RangeAny(_, _, _)
RangeAny(g, it, pos) ==
    LET r == AttackRangeNext(g, it)
    IN  IF r.out = None THEN Some(FALSE)
        ELSE IF r.out = Panic THEN Panic
        ELSE IF Unwrap(r.out) = pos THEN Some(TRUE)
        ELSE RangeAny(g, r.it, pos)

\* Terrain defense, in tenths.
TerrainDefense(terrain) == IF terrain = "Grass" THEN 0 ELSE 3

\* The damage formula without its clamp.
damage_amount_unclamped(base, modifier, health, bonus, defender_health) ==
    base * modifier * health * (100 - bonus * defender_health)

\* The damage formula, in ten-thousandths, with modifier and bonus in
\* tenths:
\* base * modifier * (health / 10) * (1 - defense_bonus * defender.health / 10),
\* clamped to >= 0.
damage_amount(base, modifier, health, bonus, defender_health) ==
    LET amount == base * modifier * health * (100 - bonus * defender_health)
    IN  IF amount < 0 THEN 0 ELSE amount

\* Unit::attack_damage, in thousandths; no kind has a modifier entry, so
\* the modifier is 1.0.
attack_damage(attacker, defender, terrain) ==
    damage_amount(KindInfo(attacker.kind).power, 10, attacker.health,
                  TerrainDefense(terrain) + KindInfo(defender.kind).defense,
                  defender.health) \div 10

\* Unit::retaliation_damage: the defender's attack_damage on the attacker;
\* the damage the defender has just taken is not an input.
retaliation_damage(defender, damage, attacker, terrain) ==
    attack_damage(defender, attacker, terrain)

\* Unit::receive_damage(amount), amount in thousandths: the unit after the
\* call; it is destroyed when its health is 0.
receive_damage(unit, amount) ==
    LET rounded == (amount + 500) \div 1000
    IN  [unit EXCEPT !.health = IF rounded >= unit.health THEN 0
                                ELSE unit.health - rounded]

\* add_unit that stores the unit whatever the slot holds.
add_unit_replacing(g, unit, pos) ==
    IF ~InBounds(g.size, pos[1], pos[2]) THEN <<"Panic", g>>
    ELSE <<"Some", GridSet(g, pos, Some(unit))>>

\* Grid::add_unit: Some with the grid after the call, or Panic with the
\* grid as the failed assertion (of index or of add_unit) leaves it.
add_unit(g, unit, pos) ==
    IF ~InBounds(g.size, pos[1], pos[2]) THEN <<"Panic", g>>
    ELSE IF IsSome(GridUnit(g, pos)) THEN <<"Panic", g>>
    ELSE <<"Some", GridSet(g, pos, Some(unit))>>

\* move_unit that stores the unit whatever the destination holds.
move_unit_overwriting(g, from, to) ==
    IF ~InBounds(g.size, from[1], from[2]) THEN <<"Panic", g>>
    ELSE IF ~InBounds(g.size, to[1], to[2]) THEN <<"Panic", GridSet(g, from, None)>>
    ELSE <<"Some", GridSet(GridSet(g, from, None), to, GridUnit(g, from))>>

\* Grid::move_unit: the unit is taken out of `from` before the destination
\* is looked at.
move_unit(g, from, to) ==
    IF ~InBounds(g.size, from[1], from[2]) THEN <<"Panic", g>>
    ELSE LET taken == GridSet(g, from, None)
         IN  IF ~InBounds(g.size, to[1], to[2]) THEN <<"Panic", taken>>
             ELSE IF IsSome(GridUnit(taken, to)) THEN <<"Panic", taken>>
             ELSE <<"Some", GridSet(taken, to, GridUnit(g, from))>>

\* call: a function, its arguments, and its result once it has returned.
CallIdle == [op |-> "none", args |-> <<>>, status |-> "idle", out |-> None]

Called(op, args) == [op |-> op, args |-> args, status |-> "called", out |-> None]

\* receive_attack that subtracts without comparing first: the u32
\* subtraction wraps around.
receive_attack_wrapping(health, damage) ==
    <<(health - damage) % (WordMax + 1), health = damage>>

\* Unit::receive_attack on a unit of the given health, by an attacker of
\* the given damage: the health afterwards and the value returned.
receive_attack(health, damage) ==
    IF damage >= health THEN <<0, TRUE>>
    ELSE <<health - damage, FALSE>>

\* One call of Grid::add_unit, with a position on the grid or just off
\* it; call.out is the grid before the call.
AddUnit ==
    /\ call.status = "idle"
    /\ \E f \in Factions, pos \in (0..grid.size[1]) \X (0..grid.size[2]) :
          LET r == add_unit(grid, MkUnit(f), pos)
          IN  /\ grid' = r[2]
              /\ call' = [op |-> "add_unit", args |-> <<MkUnit(f), pos>>,
                          status |-> IF r[1] = "Some" THEN "returned" ELSE "aborted",
                          out |-> grid]
    /\ UNCHANGED <<finder, range, pair, turn_info, turn_log, tile, tile_log,
                   attackable, scene, scene_log, path>>

\* One call of Grid::move_unit.
MoveUnit ==
    /\ call.status = "idle"
    /\ \E from \in (0..grid.size[1]) \X (0..grid.size[2]),
          to \in (0..grid.size[1]) \X (0..grid.size[2]) :
          LET r == move_unit(grid, from, to)
          IN  /\ grid' = r[2]
              /\ call' = [op |-> "move_unit", args |-> <<from, to>>,
                          status |-> IF r[1] = "Some" THEN "returned" ELSE "aborted",
                          out |-> grid]
    /\ UNCHANGED <<finder, range, pair, turn_info, turn_log, tile, tile_log,
                   attackable, scene, scene_log, path>>

\* Result values: Ok(v) and Err(message).
Ok(v) == <<"Ok", v>>
Err(e) == <<"Err", e>>

\* RangeKind::from_spec
RangeKindFromSpec(spec) ==
    CASE spec.kind = "melee" -> Ok([kind |-> "Melee"])
      [] spec.kind = "ranged" ->
            IF spec.min = None THEN Err("missing field 'min' for ranged range")
            ELSE IF spec.max = None THEN Err("missing field 'max' for ranged range")
            ELSE Ok([kind |-> "Ranged", min |-> Unwrap(spec.min), max |-> Unwrap(spec.max)])
      [] spec.kind = "spear" ->
            IF spec.range = None THEN Err("missing field 'range' for spear range")
            ELSE Ok([kind |-> "Spear", range |-> Unwrap(spec.range)])
      [] OTHER -> Err("unrecognized range kind")

\* The checks of one movement class without the loop over terrain.keys().
MovementClassFromSpecKnownOnly(terrain, costs) ==
    IF \E tname \in DOMAIN costs : tname \notin terrain
    THEN Err("unrecognized terrain for movement class")
    ELSE Ok(costs)

\* GameInfo::from_spec, the closure over spec.movement_classes: the two
\* loops over info.costs.keys() and terrain.keys().
MovementClassFromSpec(terrain, costs) ==
    IF \E tname \in DOMAIN costs : tname \notin terrain
    THEN Err("unrecognized terrain for movement class")
    ELSE IF \E tname \in terrain : tname \notin DOMAIN costs
    THEN Err("movement class is missing terrain")
    ELSE Ok(costs)

\* RoleInfo::from_spec: the attack first, then the movement class.
RoleFromSpec(spec, movement_classes) ==
    IF RangeKindFromSpec(spec.range)[1] = "Err" THEN RangeKindFromSpec(spec.range)
    ELSE IF spec.class \notin DOMAIN movement_classes
    THEN Err("unrecognized movement class")
    ELSE Ok([range |-> RangeKindFromSpec(spec.range)[2], class |-> spec.class])

\* GameInfo::from_spec: the results the call can have.  The maps are hash
\* maps, so `collect` may meet any of the failing entries of a map first.
GameInfoFromSpec(spec) ==
    LET class(c) == MovementClassFromSpec(spec.terrain, spec.movement_classes[c])
        role(r) == RoleFromSpec(spec.roles[r], spec.movement_classes)
        bad_classes == {c \in DOMAIN spec.movement_classes : class(c)[1] = "Err"}
        bad_roles == {r \in DOMAIN spec.roles : role(r)[1] = "Err"}
    IN  IF bad_classes # {} THEN {class(c) : c \in bad_classes}
        ELSE IF bad_roles # {} THEN {role(r) : r \in bad_roles}
        ELSE {Ok([terrain |-> spec.terrain,
                  movement_classes |-> [c \in DOMAIN spec.movement_classes |-> class(c)[2]],
                  roles |-> [r \in DOMAIN spec.roles |-> role(r)[2]]])}

\* One call of GameInfo::from_spec.
FromSpec ==
    /\ call.op = "from_spec"
    /\ call.status = "called"
    /\ \E out \in GameInfoFromSpec(call.args[1]) :
          call' = [call EXCEPT !.status = "returned", !.out = out]
    /\ UNCHANGED <<grid, finder, range, pair, turn_info, turn_log, tile, tile_log,
                   attackable, scene, scene_log, path>>

\* One call of Unit::receive_attack.
ReceiveAttack ==
    /\ call.op = "receive_attack"
    /\ call.status = "called"
    /\ call' = [call EXCEPT !.status = "returned",
                            !.out = receive_attack(call.args[1], call.args[2])]
    /\ UNCHANGED <<grid, finder, range, pair, turn_info, turn_log, tile, tile_log,
                   attackable, scene, scene_log, path>>

\* One call of Unit::attack_damage.
AttackDamage ==
    /\ call.op = "attack_damage"
    /\ call.status = "called"
    /\ call' = [call EXCEPT !.status = "returned",
                            !.out = damage_amount(call.args[1], call.args[2], call.args[3],
                                                  call.args[4], call.args[5])]
    /\ UNCHANGED <<grid, finder, range, pair, turn_info, turn_log, tile, tile_log,
                   attackable, scene, scene_log, path>>

\* The Scene between two games: no modal, nothing queued.  `frame` is the
\* phase of the frame loop, `inputs` the inputs taken in this frame.
SceneNew(cursor) ==
    [selected |-> None, cursor |-> cursor, modals |-> <<>>, pending |-> <<>>,
     will_pop_modals |-> 0, active_unit |-> None, queue |-> <<>>,
     status |-> "running", frame |-> "events", inputs |-> 0, mouse |-> FALSE]

SceneIdle == SceneNew(<<0, 0>>)

\* What the last handler did: the messages it queued, and for an attack,
\* a selection and a move the unit, the turn state and the grid it found.
NoteNone ==
    [event |-> "none", pushed |-> <<>>,
     pos |-> <<0, 0>>, target |-> <<0, 0>>,
     unit |-> None, ti |-> TurnIdle, before |-> GridIdle, faction |-> "none",
     prior |-> None, left |-> GridIdle,
     target_destroyed |-> FALSE, retaliated |-> FALSE, attacker_destroyed |-> FALSE]

SceneLogIdle == NoteNone

\* The world a handler works on: the Scene with the State's grid and
\* turn_info and the note of the handler, which keeps the grid that the
\* last unit to move has left for as long as a modal, a modal request, a
\* message or the active unit is around.
World(g, ti, s) ==
    [grid |-> g, ti |-> ti,
     note |-> [NoteNone EXCEPT !.left =
                  IF s.modals = <<>> /\ s.pending = <<>> /\ s.queue = <<>>
                        /\ s.active_unit = None
                  THEN GridIdle ELSE scene_log.left]] @@ s

SceneOf(w) == [f \in DOMAIN scene |-> w[f]]

\* A panic: the program has ended.
Abort(w) == [w EXCEPT !.status = "aborted"]

\* `queue.push(message)`
Push(w, m) == [w EXCEPT !.queue = Append(@, m)]

\* State::push_modal
push_modal(w, modal) ==
    [w EXCEPT !.pending = Append(@, <<"Push", modal>>),
              !.queue = Append(@, <<"ApplyOneModal">>)]

\* pop_modal that does not count the request.
pop_modal_uncounted(w) ==
    [w EXCEPT !.pending = Append(@, <<"Pop">>),
              !.queue = Append(@, <<"ApplyOneModal">>)]

\* State::pop_modal
pop_modal(w) ==
    [w EXCEPT !.pending = Append(@, <<"Pop">>),
              !.queue = Append(@, <<"ApplyOneModal">>),
              !.will_pop_modals = @ + 1]

\* State::break_modal
break_modal(w) ==
    [w EXCEPT !.pending = Append(@, <<"Break">>),
              !.queue = Append(@, <<"ApplyOneModal">>),
              !.will_pop_modals = @ + 1]

\* State::apply_one_modal: the request taken is the last one made.
apply_one_modal(w) ==
    IF w.pending = <<>> THEN Abort(w)
    ELSE LET req == w.pending[Len(w.pending)]
             rest == SubSeq(w.pending, 1, Len(w.pending) - 1)
         IN  CASE req[1] = "Push" ->
                    [w EXCEPT !.pending = rest, !.modals = Append(@, req[2])]
               [] req[1] = "Pop" ->
                    IF w.modals = <<>> THEN Abort(w)
                    ELSE [w EXCEPT !.pending = rest,
                                   !.modals = SubSeq(@, 1, Len(@) - 1),
                                   !.will_pop_modals = @ - 1]
               [] req[1] = "Break" ->
                    [w EXCEPT !.pending = rest, !.modals = <<>>,
                              !.will_pop_modals = @ - 1]

\* TurnInfo::can_act: Some(bool), or Panic when there is no current faction.
can_act(ti, unit) ==
    IF current_faction(ti) = "Panic" THEN Panic
    ELSE Some(unit.faction = current_faction(ti) /\ ti.actions_left > 0 /\ ~unit.spent)

\* GridManager::select_unit
select_unit(w, pos) ==
    IF GridUnit(w.grid, pos) = None THEN Abort(w)
    ELSE LET unit == Unwrap(GridUnit(w.grid, pos))
         IN  IF can_act(w.ti, unit) = Panic THEN Abort(w)
             ELSE IF Unwrap(can_act(w.ti, unit))
             THEN [w EXCEPT !.selected = Some([pos |-> pos,
                                               costs |-> GridPathFinder(w.grid, pos)]),
                            !.note.event = "selected", !.note.unit = Some(unit),
                            !.note.ti = w.ti, !.note.pos = pos]
             ELSE w

\* GridManager::move_cursor_to
move_cursor_to(w, pos) ==
    IF ~InBounds(w.grid.size, pos[1], pos[2]) THEN Abort(w)
    ELSE IF IsSome(w.selected) /\ ~can_move_to(Unwrap(w.selected).costs, pos) THEN w
    ELSE [w EXCEPT !.cursor = pos]

\* GridManager::move_cursor_up / _down / _left / _right
move_cursor_dir(w, dir) ==
    LET x == w.cursor[1]
        y == w.cursor[2]
    IN  CASE dir = "Up" ->
                IF y < w.grid.size[2] - 1 THEN move_cursor_to(w, <<x, y + 1>>) ELSE w
          [] dir = "Down" ->
                IF y > 0 THEN move_cursor_to(w, <<x, y - 1>>) ELSE w
          [] dir = "Left" ->
                IF x > 0 THEN move_cursor_to(w, <<x - 1, y>>) ELSE w
          [] dir = "Right" ->
                IF x < w.grid.size[1] - 1 THEN move_cursor_to(w, <<x + 1, y>>) ELSE w

\* move_refused that does not put the selection back after `take()`.
move_refused_deselecting(w, selected, target) ==
    [w EXCEPT !.selected = None,
              !.note.event = "refused", !.note.pos = selected.pos,
              !.note.target = target, !.note.ti = w.ti, !.note.before = w.grid,
              !.note.prior = Some(SceneOf(w))]

\* The early return of move_selected_unit_and_act on an occupied target:
\* `self.selected = Some(selected); return;`
move_refused(w, selected, target) ==
    [w EXCEPT !.selected = Some(selected),
              !.note.event = "refused", !.note.pos = selected.pos,
              !.note.target = target, !.note.ti = w.ti, !.note.before = w.grid,
              !.note.prior = Some(SceneOf(w))]

\* GridManager::move_selected_unit_and_act: the worlds it can end in, one
\* for every path random_path_rev can yield.
move_selected_unit_and_act(w, target) ==
    IF w.selected = None THEN {Abort(w)}
    ELSE LET selected == Unwrap(w.selected)
             origin == selected.pos
         IN  IF target # origin /\ IsSome(GridUnit(w.grid, target))
             THEN {move_refused(w, selected, target)}
             ELSE IF ~can_move_to(selected.costs, target)
             THEN {Abort([w EXCEPT !.note.event = "unreachable",
                                   !.note.pos = origin, !.note.target = target])}
             ELSE LET w1 == move_cursor_to([w EXCEPT !.selected = None], target)
                  IN  IF w1.status = "aborted" \/ GridUnit(w1.grid, origin) = None
                      THEN {Abort(w1)}
                      ELSE LET unit == Unwrap(GridUnit(w1.grid, origin))
                               w2 == [w1 EXCEPT !.grid = GridSet(w1.grid, origin, None),
                                                !.note.event = "moved",
                                                !.note.left = w.grid,
                                                !.note.unit = Some(unit),
                                                !.note.ti = w.ti,
                                                !.note.pos = origin,
                                                !.note.target = target]
                           IN  {IF Len(p) > 0 /\ p[Len(p)] = <<-1, -1>>
                                THEN Abort(w2)
                                ELSE push_modal(w2, <<"UnitMover", Some(unit), origin,
                                                      Reverse(p), FALSE>>) :
                                    p \in RevPaths(selected.costs, origin, target)}

\* GridManager::confirm
confirm(w) ==
    IF IsSome(w.selected) THEN move_selected_unit_and_act(w, w.cursor)
    ELSE IF IsSome(GridUnit(w.grid, w.cursor)) THEN {select_unit(w, w.cursor)}
    ELSE {w}

\* GridManager::cancel; the range shown for an unselected unit is display
\* state only.
cancel(w) == IF IsSome(w.selected) THEN [w EXCEPT !.selected = None] ELSE w

\* unit_destroyed that reports the faction defeated every time.
unit_destroyed_always(w, unit) == Push(w, <<"FactionDefeated", unit.faction>>)

\* GridManager::unit_destroyed
unit_destroyed(w, unit) ==
    IF \A u \in GridUnits(w.grid) : u.faction # unit.faction
    THEN Push(w, <<"FactionDefeated", unit.faction>>)
    ELSE w

\* GridManager::destroy_unit
destroy_unit(w, pos) ==
    IF GridUnit(w.grid, pos) = None THEN Abort(w)
    ELSE unit_destroyed([w EXCEPT !.grid = GridSet(w.grid, pos, None)],
                        Unwrap(GridUnit(w.grid, pos)))

\* GridManager::select_target; TargetSelector::new asserts that there is a
\* target.
select_target(w, origin, pos) ==
    IF GridUnit(w.grid, pos) = None THEN Abort(w)
    ELSE LET targets == Targets(w.grid, origin, pos)
         IN  IF targets = Panic \/ targets = Some(<<>>) THEN Abort(w)
             ELSE push_modal(w, <<"TargetSelector", pos, origin, Unwrap(targets), 0>>)

\* GridManager::handle_unit_moved: the menu offers Attack when the unit
\* has a target.
handle_unit_moved(w, origin, target) ==
    IF GridUnit(w.grid, target) = None THEN Abort(w)
    ELSE LET targets == Targets(w.grid, origin, target)
         IN  IF targets = Panic THEN Abort(w)
             ELSE push_modal(w, <<"Menu",
                                  IF targets = Some(<<>>) THEN <<"Wait">>
                                  ELSE <<"Attack", "Wait">>,
                                  0, origin, target>>)

\* Retaliates that lets every surviving defender strike back.
RetaliatesAlways(g, defender, target, pos) == Some(TRUE)

\* `attack_range_when_retaliating(defender, target).any(|p| p == pos)`
Retaliates(g, defender, target, pos) ==
    RangeAny(g, attack_range_when_retaliating(defender, target), pos)

\* PutBack that puts the attacker back whatever its health.
PutBackAlways(w, attacker, pos, attacker_destroyed) ==
    IF IsSome(GridUnit(w.grid, pos)) THEN Abort(w)
    ELSE [w EXCEPT !.grid = GridSet(w.grid, pos, Some(attacker))]

\* The end of the AttackWithUnit handler: a destroyed attacker is reported,
\* a surviving one is added to the grid again.
PutBack(w, attacker, pos, attacker_destroyed) ==
    IF attacker_destroyed THEN unit_destroyed(w, attacker)
    ELSE IF IsSome(GridUnit(w.grid, pos)) THEN Abort(w)
    ELSE [w EXCEPT !.grid = GridSet(w.grid, pos, Some(attacker))]

\* GridManager::handle, AttackWithUnit(pos, target)
AttackWithUnit(w, pos, target) ==
    IF GridUnit(w.grid, pos) = None THEN Abort(w)
    ELSE
    LET attacker == Unwrap(GridUnit(w.grid, pos))
        w0 == [w EXCEPT !.note.event = "attacked", !.note.unit = Some(attacker),
                        !.note.ti = w.ti, !.note.pos = pos, !.note.target = target,
                        !.note.before = w.grid]
        w1 == [w0 EXCEPT !.grid = GridSet(w.grid, pos, None)]
    IN  IF GridUnit(w1.grid, target) = None THEN Abort(w1)
        ELSE
        LET target_unit == Unwrap(GridUnit(w1.grid, target))
            damage == attack_damage(attacker, target_unit, GridTerrain(w1.grid, target))
            defender == receive_damage(target_unit, damage)
            target_destroyed == defender.health = 0
            w2 == [w1 EXCEPT !.grid = GridSet(w1.grid, target, Some(defender)),
                             !.note.target_destroyed = target_destroyed]
        IN  IF target_destroyed
            THEN PutBack(destroy_unit(w2, target), attacker, pos, FALSE)
            ELSE
            LET in_range == Retaliates(w2.grid, defender, target, pos)
            IN  IF in_range = Panic THEN Abort(w2)
                ELSE IF Unwrap(in_range)
                THEN LET back == retaliation_damage(defender, damage, attacker,
                                                    GridTerrain(w2.grid, pos))
                         hurt == receive_damage(attacker, back)
                     IN  PutBack([w2 EXCEPT !.note.retaliated = TRUE,
                                            !.note.attacker_destroyed = hurt.health = 0],
                                 hurt, pos, hurt.health = 0)
                ELSE PutBack(w2, attacker, pos, FALSE)

\* GridManager::handle, UnitSpent(pos)
UnitSpent(w, pos) ==
    LET w1 == IF IsSome(GridUnit(w.grid, pos))
              THEN [w EXCEPT !.grid = GridSet(w.grid, pos,
                        Some([Unwrap(GridUnit(w.grid, pos)) EXCEPT !.spent = TRUE]))]
              ELSE w
    IN  IF w1.ti.actions_left > 0
        THEN [w1 EXCEPT !.ti = spend_action(w1.ti), !.note.event = "spent"]
        ELSE Abort(w1)

\* GridManager::handle, UnitMoved(from, to)
UnitMoved(w, from, to) ==
    IF w.active_unit = None THEN Abort(w)
    ELSE IF IsSome(GridUnit(w.grid, to)) THEN Abort([w EXCEPT !.active_unit = None])
    ELSE handle_unit_moved(
            [w EXCEPT !.active_unit = None,
                      !.grid = GridSet(w.grid, to, Some(Unwrap(w.active_unit)[2]))],
            from, to)

\* GridManager::handle, CancelSelected(pos, target), with Grid::move_unit
CancelSelected(w, pos, target) ==
    LET taken == [w EXCEPT !.grid = GridSet(w.grid, target, None)]
    IN  IF IsSome(GridUnit(taken.grid, pos)) THEN Abort(taken)
        ELSE LET w1 == move_cursor_to(
                        [taken EXCEPT !.grid = GridSet(taken.grid, pos,
                                                       GridUnit(w.grid, target))],
                        pos)
             IN  IF w1.status = "aborted" THEN w1 ELSE select_unit(w1, pos)

\* GridManager::handle, FinishTurn
FinishTurn(w) ==
    LET rested == [w.grid EXCEPT !.units =
                      [i \in DOMAIN w.grid.units |->
                          IF w.grid.units[i] = None THEN None
                          ELSE Some([Unwrap(w.grid.units[i]) EXCEPT !.spent = FALSE])]]
        ti == end_turn(w.ti)
        w1 == [w EXCEPT !.selected = None, !.grid = rested, !.ti = ti]
    IN  IF ti.current = -1 THEN Abort(w1) ELSE w1

\* FactionDefeated that declares a winner only when a single entry is left.
FactionDefeatedWhenOneLeft(w, faction) ==
    LET ti == remove_faction(w.ti, faction)
        w1 == [w EXCEPT !.ti = ti, !.note.event = "defeated", !.note.ti = w.ti,
                        !.note.faction = faction]
    IN  IF ti.current = -1 \/ Len(ti.factions) = 0 THEN Abort(w1)
        ELSE IF Len(ti.factions) = 1
        THEN Push(w1, <<"FactionWins", ti.factions[1]>>)
        ELSE w1

\* GridManager::handle, FactionDefeated(faction)
FactionDefeated(w, faction) ==
    LET ti == remove_faction(w.ti, faction)
        w1 == [w EXCEPT !.ti = ti, !.note.event = "defeated", !.note.ti = w.ti,
                        !.note.faction = faction]
    IN  IF ti.current = -1 \/ Len(ti.factions) = 0 THEN Abort(w1)
        ELSE IF \A k \in 2..Len(ti.factions) : ti.factions[k] = ti.factions[1]
        THEN Push(w1, <<"FactionWins", ti.factions[1]>>)
        ELSE w1

\* GridManager::handle: the worlds the message can lead to.  The mouse is
\* not modelled; messages without an arm change nothing.
GridManagerHandle(w, m) ==
    CASE m[1] = "Confirm" -> confirm(w)
      [] m[1] = "Cancel" -> {cancel(w)}
      [] m[1] = "MoveCursorUp" -> {move_cursor_dir([w EXCEPT !.mouse = FALSE], "Up")}
      [] m[1] = "MoveCursorDown" -> {move_cursor_dir([w EXCEPT !.mouse = FALSE], "Down")}
      [] m[1] = "MoveCursorLeft" -> {move_cursor_dir([w EXCEPT !.mouse = FALSE], "Left")}
      [] m[1] = "MoveCursorRight" -> {move_cursor_dir([w EXCEPT !.mouse = FALSE], "Right")}
      [] m[1] \in {"MouseMovedTo", "LeftClickAt", "RightClickAt"} ->
            LET w1 == [w EXCEPT !.mouse = TRUE]
                w2 == move_cursor_to(w1, Unwrap(m[2]))
            IN  IF m[2] = None THEN {w1}
                ELSE IF w2.status = "aborted" THEN {w2}
                ELSE IF m[1] = "LeftClickAt" THEN confirm(w2)
                ELSE IF m[1] = "RightClickAt" THEN {cancel(w2)}
                ELSE {w2}
      [] m[1] = "AttackSelected" -> {select_target(w, m[2], m[3])}
      [] m[1] = "CancelSelected" -> {CancelSelected(w, m[2], m[3])}
      [] m[1] = "TargetSelectorCanceled" -> {handle_unit_moved(w, m[2], m[3])}
      [] m[1] = "UnitSpent" -> {UnitSpent(w, m[2])}
      [] m[1] = "UnitMoved" -> {UnitMoved(w, m[2], m[3])}
      [] m[1] = "AttackWithUnit" -> {AttackWithUnit(w, m[2], m[3])}
      [] m[1] = "FinishTurn" -> {FinishTurn(w)}
      [] m[1] = "FactionDefeated" -> {FactionDefeated(w, m[2])}
      [] OTHER -> {w}

\* The world with its top modal replaced.
SetTop(w, modal) == [w EXCEPT !.modals[Len(w.modals)] = modal]

\* ModalMenu::handle with the closure of handle_unit_moved; the menu is
\* <<"Menu", options, selected, origin, target>>.  Where the mouse is
\* relative to the menu is a choice: over one of the options, over a
\* confirm area, or elsewhere.
MenuHandle(w, menu, m) ==
    LET options == menu[2]
        origin == menu[4]
        target == menu[5]
        over(i) == SetTop(w, [menu EXCEPT ![3] = i])
        confirmed(v, i) ==
            IF options[i + 1] = "Attack"
            THEN Push(pop_modal(v), <<"AttackSelected", origin, target>>)
            ELSE Push(Push(pop_modal(v), <<"UnitSpent", target>>), <<"WaitSelected">>)
        canceled == Push(pop_modal(w), <<"CancelSelected", origin, target>>)
    IN  CASE m[1] = "Confirm" -> {confirmed(w, menu[3])}
          [] m[1] \in {"Cancel", "RightClickAt"} -> {canceled}
          [] m[1] = "MoveCursorDown" ->
                {SetTop(w, [menu EXCEPT ![3] = (menu[3] + 1) % Len(options)])}
          [] m[1] = "MoveCursorUp" ->
                {SetTop(w, [menu EXCEPT ![3] = (menu[3] + Len(options) - 1) % Len(options)])}
          [] m[1] = "MouseMovedTo" ->
                {w} \cup {over(i) : i \in 0..(Len(options) - 1)}
          [] m[1] = "LeftClickAt" ->
                {confirmed(w, menu[3]), canceled}
                    \cup {confirmed(over(i), i) : i \in 0..(Len(options) - 1)}
          [] OTHER -> {w}

\* TargetSelector::handle; the selector is
\* <<"TargetSelector", pos, origin, targets, selected>>.  The tile under
\* the mouse is a choice: one of the targets, or another tile.
TargetSelectorHandle(w, sel, m) ==
    LET pos == sel[2]
        origin == sel[3]
        targets == sel[4]
        over(i) == SetTop(w, [sel EXCEPT ![5] = i])
        confirmed(v, i) ==
            Push(Push(Push(Push(break_modal(v),
                <<"AttackWithUnit", pos, targets[i + 1]>>),
                <<"UnitSpent", pos>>), <<"Deselect">>), <<"ShowCursor">>)
        canceled == Push(Push(break_modal(w), <<"MoveUnit", pos, origin>>),
                         <<"MoveUnitAndAct", origin, pos>>)
    IN  CASE m[1] = "Confirm" -> {confirmed(w, sel[5])}
          [] m[1] = "Cancel" -> {canceled}
          [] m[1] \in {"MoveCursorDown", "MoveCursorRight"} ->
                {SetTop(w, [sel EXCEPT ![5] = (sel[5] + 1) % Len(targets)])}
          [] m[1] \in {"MoveCursorUp", "MoveCursorLeft"} ->
                {SetTop(w, [sel EXCEPT ![5] = (sel[5] + Len(targets) - 1) % Len(targets)])}
          [] m[1] = "MouseMovedTo" ->
                {w} \cup {over(i) : i \in 0..(Len(targets) - 1)}
          [] m[1] = "LeftClickAt" ->
                {canceled} \cup {confirmed(over(i), i) : i \in 0..(Len(targets) - 1)}
          [] OTHER -> {w}

\* Scene::handle: the worlds handling the message can lead to.  A
\* UnitMover handles no message.
SceneHandleMessage(w, m) ==
    IF m[1] = "ApplyOneModal" THEN {apply_one_modal(w)}
    ELSE IF w.will_pop_modals > 0 THEN {w}
    ELSE IF w.modals # <<>>
    THEN LET top == w.modals[Len(w.modals)]
         IN  CASE top[1] = "Menu" -> MenuHandle(w, top, m)
               [] top[1] = "TargetSelector" -> TargetSelectorHandle(w, top, m)
               [] OTHER -> {w}
    ELSE GridManagerHandle(w, m)

\* The factions of the rotation with no unit on the grid, in order.
Defeated(w) ==
    SelectSeq(w.ti.factions, LAMBDA f : \A u \in GridUnits(w.grid) : u.faction # f)

\* `for faction in defeated { remove_faction(faction) }`
RECURSIVE RemoveFactions(_, _)
RemoveFactions(ti, defeated) ==
    IF defeated = <<>> \/ ti.current = -1 THEN ti
    ELSE RemoveFactions(remove_faction(ti, Head(defeated)), Tail(defeated))

\* UnitMover::update that hands the unit over and keeps it as well.
UnitMoverUpdateCopying(w, mover) ==
    LET steps == mover[4]
        to == IF steps = <<>> THEN mover[3] ELSE steps[Len(steps)]
        done == IF mover[2] = None THEN Abort(w)
                ELSE Push(pop_modal([SetTop(w, [mover EXCEPT ![5] = TRUE])
                                        EXCEPT !.active_unit = Some(<<to, Unwrap(mover[2])>>)]),
                          <<"UnitMoved", mover[3], to>>)
        wait == SetTop(w, [mover EXCEPT ![5] = TRUE])
    IN  IF steps = <<>> THEN {done}
        ELSE IF ~mover[5] THEN {wait}
        ELSE {done, wait}

\* UnitMover::update: the first update starts the clock, so it ends the
\* move only when the path is empty; a later one ends it or not.  The
\* mover is <<"UnitMover", unit, origin, path, started>>.
UnitMoverUpdate(w, mover) ==
    LET steps == mover[4]
        to == IF steps = <<>> THEN mover[3] ELSE steps[Len(steps)]
        done == IF mover[2] = None THEN Abort(w)
                ELSE Push(pop_modal([SetTop(w, [mover EXCEPT ![2] = None, ![5] = TRUE])
                                        EXCEPT !.active_unit = Some(<<to, Unwrap(mover[2])>>)]),
                          <<"UnitMoved", mover[3], to>>)
        wait == SetTop(w, [mover EXCEPT ![5] = TRUE])
    IN  IF steps = <<>> THEN {done}
        ELSE IF ~mover[5] THEN {wait}
        ELSE {done, wait}

\* Scene::update: the worlds a frame's update can lead to.  In
\* GridManager::update the cursor follows the mouse: the tile under the
\* mouse depends on the camera, so it is any tile or none.
SceneUpdateWorld(w) ==
    LET ti == RemoveFactions(w.ti, Defeated(w))
        w1 == [w EXCEPT !.ti = ti]
        managed == IF w1.mouse
                   THEN {w1} \cup {move_cursor_to(w1, p) : p \in Positions(w1.grid.size)}
                   ELSE {w1}
    IN  IF ti.current = -1 THEN {Abort(w1)}
        ELSE UNION {IF w2.modals # <<>> /\ w2.modals[Len(w2.modals)][1] = "UnitMover"
                    THEN UnitMoverUpdate(w2, w2.modals[Len(w2.modals)])
                    ELSE {w2} : w2 \in managed}

\* The input messages of the key bindings.
InputMessages ==
    {<<"Confirm">>, <<"Cancel">>, <<"MoveCursorUp">>, <<"MoveCursorDown">>,
     <<"MoveCursorLeft">>, <<"MoveCursorRight">>, <<"FinishTurn">>}

\* The mouse messages, with the tile window_to_grid finds under the mouse.
MouseMessages(size) ==
    {"MouseMovedTo", "LeftClickAt", "RightClickAt"}
        \X ({None} \cup {Some(p) : p \in Positions(size)})

\* The Scene part of a world.
\* The frame loop takes the inputs of the frame ...
SceneInput ==
    /\ scene.status = "running"
    /\ scene.frame = "events"
    /\ scene.inputs < MaxInputs
    /\ \E m \in InputMessages :
          scene' = [scene EXCEPT !.queue = Append(@, m), !.inputs = @ + 1]
    /\ UNCHANGED <<grid, finder, range, pair, turn_info, turn_log, tile, tile_log,
                   attackable, scene_log, path, call>>

\* The same step with the mouse: a small game takes several inputs in a
\* frame, a larger one a single input.
SceneInputBurst ==
    /\ scene.status = "running"
    /\ scene.frame = "events"
    /\ scene.inputs < (IF Count(grid.size) <= MaxBurstTiles
                       THEN MaxBurstInputs ELSE MaxInputs)
    /\ \E m \in InputMessages \cup MouseMessages(grid.size) :
          scene' = [scene EXCEPT !.queue = Append(@, m), !.inputs = @ + 1]
    /\ UNCHANGED <<grid, finder, range, pair, turn_info, turn_log, tile, tile_log,
                   attackable, scene_log, path, call>>

\* ... lets the Scene handle the queued messages one by one ...
SceneHandle ==
    /\ scene.status = "running"
    /\ scene.queue # <<>>
    /\ \E w \in SceneHandleMessage(
                    World(grid, turn_info,
                          [scene EXCEPT !.queue = Tail(@), !.frame = "handle"]),
                    Head(scene.queue)) :
          /\ grid' = w.grid
          /\ turn_info' = w.ti
          /\ scene' = SceneOf(w)
          /\ scene_log' = [w.note EXCEPT
                              !.pushed = SubSeq(w.queue, Len(scene.queue), Len(w.queue))]
    /\ UNCHANGED <<finder, range, pair, turn_log, tile, tile_log, attackable, path, call>>

\* ... and, the queue empty, updates the Scene.
SceneUpdate ==
    /\ scene.status = "running"
    /\ scene.queue = <<>>
    /\ \E w \in SceneUpdateWorld(
                    World(grid, turn_info,
                          [scene EXCEPT !.frame = "events", !.inputs = 0])) :
          /\ grid' = w.grid
          /\ turn_info' = w.ti
          /\ scene' = SceneOf(w)
          /\ scene_log' = [w.note EXCEPT !.pushed = w.queue]
    /\ UNCHANGED <<finder, range, pair, turn_log, tile, tile_log, attackable, path, call>>

---------------------------------------------------------------------------
(* Specifications.                                                         *)

\* The path finder of a unit standing on `pos`, on any grid.
InitPathFinder ==
    /\ \E s \in Sizes : \E u \in Placements(s), t \in Layouts(s) : grid = GridOf(s, u, t)
    /\ \E pos \in Positions(grid.size), movement \in 0..MaxMovement :
          /\ IsSome(GridUnit(grid, pos))
          /\ finder = PathFinderStart(Unwrap(GridUnit(grid, pos)), movement, pos)
    /\ range = RangeIdle
    /\ pair = PairIdle
    /\ turn_info = TurnIdle
    /\ turn_log = TurnLogIdle
    /\ tile = TileIdle
    /\ tile_log = TileLogIdle
    /\ attackable = AttackableIdle
    /\ scene = SceneIdle
    /\ scene_log = SceneLogIdle
    /\ path = PathIdle
    /\ call = CallIdle

NextPathFinder == PathFinderPop \/ PathFinderReturn

SpecPathFinder == InitPathFinder /\ [][NextPathFinder]_vars

\* The loop of path_finder is sequential code: an iteration that can be
\* taken is taken.
SpecPathFinderLive == SpecPathFinder /\ WF_vars(NextPathFinder)

\* random_path_rev on the cost map path_finder returns for a unit standing
\* on `pos`, on any grid, for any mapped target.
InitRandomPath ==
    /\ \E s \in Sizes : \E u \in Placements(s), t \in Layouts(s) : grid = GridOf(s, u, t)
    /\ \E pos \in Positions(grid.size), movement \in 0..MaxMovement :
          /\ IsSome(GridUnit(grid, pos))
          /\ finder = [PathFinderStart(Unwrap(GridUnit(grid, pos)), movement, pos)
                         EXCEPT !.pc = "done",
                                !.to_be_searched = <<>>,
                                !.costs = path_finder(grid, Unwrap(GridUnit(grid, pos)),
                                                      movement, pos)]
    /\ \E target \in DOMAIN finder.costs : path = random_path_rev(finder.pos, target)
    /\ range = RangeIdle
    /\ pair = PairIdle
    /\ turn_info = TurnIdle
    /\ turn_log = TurnLogIdle
    /\ tile = TileIdle
    /\ tile_log = TileLogIdle
    /\ attackable = AttackableIdle
    /\ scene = SceneIdle
    /\ scene_log = SceneLogIdle
    /\ call = CallIdle

NextRandomPath == RandomPathRevNext

SpecRandomPath == InitRandomPath /\ [][NextRandomPath]_vars

\* Unit-free square grids, for the ranges that ignore occupancy.
SquareSizes == (1..MaxSide) \X (1..MaxSide)

\* An attack range enumerated from a position: melee and ranged on
\* unit-free grids of any size, spear from a unit on an all-Grass grid with
\* other units.
InitRange ==
    /\ \/ /\ \E s \in SquareSizes : grid = GridNew(s)
          /\ \E pos \in Positions(grid.size) :
                \/ range = RangeStart(RangeEmpty, 0, 0)
                \/ range = RangeStart(RangeMelee(pos), 1, 1)
                \/ \E min \in 0..MaxRange, max \in 0..MaxRange :
                      range = RangeStart(RangeRanged(pos, min, max), min, max)
       \/ /\ \E s \in Sizes : \E u \in Placements(s) :
                grid = GridOf(s, u, GridNew(s).terrain)
          /\ \E pos \in Positions(grid.size), max \in 0..MaxRange :
                /\ IsSome(GridUnit(grid, pos))
                /\ range = RangeStart(RangeSpear(Unwrap(GridUnit(grid, pos)), pos, max),
                                       1, max)
    /\ finder = FinderIdle
    /\ pair = PairIdle
    /\ turn_info = TurnIdle
    /\ turn_log = TurnLogIdle
    /\ tile = TileIdle
    /\ tile_log = TileLogIdle
    /\ attackable = AttackableIdle
    /\ scene = SceneIdle
    /\ scene_log = SceneLogIdle
    /\ path = PathIdle
    /\ call = CallIdle

NextRange == RangeNext

SpecRange == InitRange /\ [][NextRange]_vars

\* The unit arrays with at most n units, of any faction.
PlacementsUpTo(size, n) ==
    {u \in [0..(Count(size) - 1) -> {None} \cup {Some(MkUnit(f)) : f \in Factions}] :
        Cardinality({i \in DOMAIN u : u[i] # None}) <= n}

AttackSizes ==
    {s \in (1..MaxAttackTiles) \X (1..MaxAttackTiles) : s[1] * s[2] <= MaxAttackTiles}

\* The attack types of a unit: melee, and every ranged and spear range.
AttackTypes ==
    {AttackMelee}
        \cup {AttackRanged(min, max) : min \in 0..MaxRange, max \in 0..MaxRange}
        \cup {AttackSpear(r) : r \in 0..MaxRange}

\* find_attackable for a unit of the grid, of any attack type, as if moved
\* to any position.
InitAttackable ==
    /\ \E s \in AttackSizes : \E u \in PlacementsUpTo(s, MaxTargets + 1) :
          grid = GridOf(s, u, GridNew(s).terrain)
    /\ \E at \in Positions(grid.size), pos \in Positions(grid.size), a \in AttackTypes :
          /\ IsSome(GridUnit(grid, at))
          /\ attackable =
               AttackableStart(find_attackable(grid, Unwrap(GridUnit(grid, at)), a, pos))
    /\ finder = FinderIdle
    /\ range = RangeIdle
    /\ pair = PairIdle
    /\ turn_info = TurnIdle
    /\ turn_log = TurnLogIdle
    /\ tile = TileIdle
    /\ tile_log = TileLogIdle
    /\ scene = SceneIdle
    /\ scene_log = SceneLogIdle
    /\ path = PathIdle
    /\ call = CallIdle

NextAttackable == FindAttackableStep

SpecAttackable == InitAttackable /\ [][NextAttackable]_vars

\* The grids of a game.
SceneSizes ==
    {s \in (1..MaxSceneTiles) \X (1..MaxSceneTiles) : s[1] * s[2] <= MaxSceneTiles}

\* The unit arrays of a game: at most n units of any faction, with a kind
\* of `kinds` and a health of `healths`, none of them spent.
SceneUnits(size, n, kinds, healths) ==
    {u \in [0..(Count(size) - 1) ->
                {None} \cup {Some(GameUnit(f, k, h)) :
                                f \in Factions, k \in kinds, h \in healths}] :
        Cardinality({i \in DOMAIN u : u[i] # None}) <= n}

\* The kinds of the units of a whole game.
SceneKinds == {"Warrior", "Archer"}

\* A game at its start: Red and Blue take turns and have a unit each, the
\* units are created with the lower health (UnitType::create with
\* Some(health)), the cursor is on the middle tile.
InitScene ==
    /\ \E s \in SceneSizes : \E u \in SceneUnits(s, MaxSceneUnits, SceneKinds, {Min(HealthLevels)}) :
          /\ grid = GridOf(s, u, GridNew(s).terrain)
          /\ \A f \in Factions : \E v \in GridUnits(grid) : v.faction = f
          /\ scene = SceneNew(<<s[1] \div 2, s[2] \div 2>>)
    /\ turn_info = TurnInfoNew(<<"Red", "Blue">>, MaxActions)
    /\ scene_log = SceneLogIdle
    /\ finder = FinderIdle
    /\ range = RangeIdle
    /\ pair = PairIdle
    /\ turn_log = TurnLogIdle
    /\ tile = TileIdle
    /\ tile_log = TileLogIdle
    /\ attackable = AttackableIdle
    /\ path = PathIdle
    /\ call = CallIdle

NextScene == SceneInput \/ SceneHandle \/ SceneUpdate

SpecScene == InitScene /\ [][NextScene]_vars

\* A game played with keys and mouse at its start: a small game has units
\* of every kind, a larger one has Warriors.
InitBurst ==
    /\ \E s \in SceneSizes :
       \E u \in SceneUnits(s, MaxSceneUnits,
                            IF Count(s) <= MaxBurstTiles THEN SceneKinds ELSE {"Warrior"},
                            {Min(HealthLevels)}) :
          /\ grid = GridOf(s, u, GridNew(s).terrain)
          /\ \A f \in Factions : \E v \in GridUnits(grid) : v.faction = f
          /\ scene = SceneNew(<<s[1] \div 2, s[2] \div 2>>)
    /\ turn_info = TurnInfoNew(<<"Red", "Blue">>, MaxActions)
    /\ scene_log = SceneLogIdle
    /\ finder = FinderIdle
    /\ range = RangeIdle
    /\ pair = PairIdle
    /\ turn_log = TurnLogIdle
    /\ tile = TileIdle
    /\ tile_log = TileLogIdle
    /\ attackable = AttackableIdle
    /\ path = PathIdle
    /\ call = CallIdle

NextBurst == SceneInputBurst \/ SceneHandle \/ SceneUpdate

SpecBurst == InitBurst /\ [][NextBurst]_vars

\* A game at the moment a target has been confirmed: the unit of the
\* current faction on pos, which has stayed there or has come from the
\* first free tile, attacks one of its targets; the messages of
\* TargetSelector::confirm are queued.
InitAttack ==
    /\ \E s \in SceneSizes : \E u \in SceneUnits(s, MaxTargets + 1, UnitKinds, HealthLevels) :
       \E t \in Layouts(s) :
          grid = GridOf(s, u, t)
    /\ turn_info = TurnInfoNew(<<"Red", "Blue">>, MaxActions)
    /\ \E pos \in Positions(grid.size), origin \in Positions(grid.size) :
          /\ IsSome(GridUnit(grid, pos))
          /\ can_act(turn_info, Unwrap(GridUnit(grid, pos))) = Some(TRUE)
          /\ \/ origin = pos
             \/ /\ GridUnit(grid, origin) = None
                /\ \A q \in Positions(grid.size) :
                      GridUnit(grid, q) = None => Index(grid, origin) <= Index(grid, q)
          /\ IsSome(Targets(grid, origin, pos))
          /\ \E k \in 1..Len(Unwrap(Targets(grid, origin, pos))) :
                scene = [SceneNew(pos) EXCEPT
                            !.frame = "handle",
                            !.queue = <<<<"AttackWithUnit", pos,
                                          Unwrap(Targets(grid, origin, pos))[k]>>,
                                        <<"UnitSpent", pos>>, <<"Deselect">>,
                                        <<"ShowCursor">>>>]
    /\ scene_log = SceneLogIdle
    /\ finder = FinderIdle
    /\ range = RangeIdle
    /\ pair = PairIdle
    /\ turn_log = TurnLogIdle
    /\ tile = TileIdle
    /\ tile_log = TileLogIdle
    /\ attackable = AttackableIdle
    /\ path = PathIdle
    /\ call = CallIdle

NextAttack == SceneHandle

SpecAttack == InitAttack /\ [][NextAttack]_vars

\* A game at the moment a unit of the current faction has arrived on `to`
\* from origin (UnitMover::update has queued UnitMoved and holds the unit
\* as the active unit), or at the moment Attack has been chosen in the
\* menu that was opened on its arrival (AttackSelected is queued).
InitMoved ==
    /\ turn_info = TurnInfoNew(<<"Red", "Blue">>, MaxActions)
    /\ \E s \in {z \in (1..MaxMovedTiles) \X (1..MaxMovedTiles) :
                    z[1] * z[2] <= MaxMovedTiles} :
       \E u \in SceneUnits(s, MaxTargets + 1, UnitKinds, {Min(HealthLevels)}) :
       \E t \in Layouts(s) :
       \E origin \in Positions(s), to \in Positions(s) :
          LET before == GridOf(s, u, t)
          IN  /\ IsSome(GridUnit(before, origin))
              /\ can_act(turn_info, Unwrap(GridUnit(before, origin))) = Some(TRUE)
              /\ to = origin \/ GridUnit(before, to) = None
              /\ can_move_to(GridPathFinder(before, origin), to)
              /\ \/ /\ grid = GridSet(before, origin, None)
                    /\ scene = [SceneNew(to) EXCEPT
                                   !.frame = "handle",
                                   !.active_unit = Some(<<to, Unwrap(GridUnit(before, origin))>>),
                                   !.queue = <<<<"UnitMoved", origin, to>>>>]
                 \/ /\ grid = GridSet(GridSet(before, origin, None), to, GridUnit(before, origin))
                    /\ Targets(grid, origin, to) \notin {Panic, Some(<<>>)}
                    /\ scene = [SceneNew(to) EXCEPT
                                   !.frame = "handle",
                                   !.queue = <<<<"AttackSelected", origin, to>>>>]
    /\ scene_log = SceneLogIdle
    /\ finder = FinderIdle
    /\ range = RangeIdle
    /\ pair = PairIdle
    /\ turn_log = TurnLogIdle
    /\ tile = TileIdle
    /\ tile_log = TileLogIdle
    /\ attackable = AttackableIdle
    /\ path = PathIdle
    /\ call = CallIdle

NextMoved == SceneHandle

SpecMoved == InitMoved /\ [][NextMoved]_vars

\* A game at the moment FactionDefeated(f) is queued, for every faction
\* list of up to MaxFactions entries and every entry holding the turn.
\* Faction is an enum of at least two values; a third one, Green, stands
\* for the factions beyond Red and Blue.
InitDefeated ==
    /\ grid = GridNew(<<1, 1>>)
    /\ \E n \in 1..MaxFactions : \E factions \in [1..n -> Factions \cup {"Green"}] :
       \E current \in 0..(n - 1) :
          turn_info = [TurnInfoNew(factions, MaxActions) EXCEPT !.current = current]
    /\ \E f \in Factions \cup {"Green"} :
          scene = [SceneNew(<<0, 0>>) EXCEPT !.frame = "handle",
                                             !.queue = <<<<"FactionDefeated", f>>>>]
    /\ scene_log = SceneLogIdle
    /\ finder = FinderIdle
    /\ range = RangeIdle
    /\ pair = PairIdle
    /\ turn_log = TurnLogIdle
    /\ tile = TileIdle
    /\ tile_log = TileLogIdle
    /\ attackable = AttackableIdle
    /\ path = PathIdle
    /\ call = CallIdle

NextDefeated == SceneHandle

SpecDefeated == InitDefeated /\ [][NextDefeated]_vars

\* Unit::receive_attack for every health and damage of a word, and
\* Unit::attack_damage for every base damage, modifier, defense bonus and
\* pair of healths.
InitDamage ==
    /\ \/ \E health \in 0..WordMax, damage \in 0..WordMax :
             call = Called("receive_attack", <<health, damage>>)
       \/ \E base \in (-1)..MaxBase, modifier \in 0..MaxModifier, bonus \in 0..MaxBonus :
          \E health \in 0..MaxHealth, defender_health \in 0..MaxHealth :
             call = Called("attack_damage",
                           <<base, modifier, health, bonus, defender_health>>)
    /\ grid = GridIdle
    /\ finder = FinderIdle
    /\ range = RangeIdle
    /\ pair = PairIdle
    /\ turn_info = TurnIdle
    /\ turn_log = TurnLogIdle
    /\ tile = TileIdle
    /\ tile_log = TileLogIdle
    /\ attackable = AttackableIdle
    /\ scene = SceneIdle
    /\ scene_log = SceneLogIdle
    /\ path = PathIdle

NextDamage == ReceiveAttack \/ AttackDamage

SpecDamage == InitDamage /\ [][NextDamage]_vars

\* Grid::add_unit and Grid::move_unit on the grid of any level.
InitGrid ==
    /\ \E s \in Sizes : \E u \in Placements(s) : \E t \in Layouts(s) :
          grid = GridOf(s, u, t)
    /\ call = CallIdle
    /\ finder = FinderIdle
    /\ range = RangeIdle
    /\ pair = PairIdle
    /\ turn_info = TurnIdle
    /\ turn_log = TurnLogIdle
    /\ tile = TileIdle
    /\ tile_log = TileLogIdle
    /\ attackable = AttackableIdle
    /\ scene = SceneIdle
    /\ scene_log = SceneLogIdle
    /\ path = PathIdle

NextGrid == AddUnit \/ MoveUnit

SpecGrid == InitGrid /\ [][NextGrid]_vars

\* The range specs of a role: a kind, recognized or not, and each of the
\* optional fields present or absent.
RangeSpecs ==
    [kind : {"melee", "ranged", "spear", "laser"},
     min : {None, Some(1)}, max : {None, Some(2)}, range : {None, Some(2)}]

\* The tables from some of the names 1..n to the values.
Tables(n, values) == UNION {[names -> values] : names \in SUBSET (1..n)}

\* GameInfo::from_spec on every deserialized spec of up to MaxTerrains
\* terrains, MaxClasses movement classes with a cost for any of the
\* terrain names, and MaxRoles roles; names are numbers.
InitInfo ==
    /\ \E terrain \in SUBSET (1..MaxTerrains) :
       \E movement_classes \in
             Tables(MaxClasses, UNION {[keys -> {1}] : keys \in SUBSET (1..MaxTerrains)}) :
       \E roles \in Tables(MaxRoles, [range : RangeSpecs, class : 1..MaxClasses]) :
          call = Called("from_spec", <<[terrain |-> terrain,
                                        movement_classes |-> movement_classes,
                                        roles |-> roles]>>)
    /\ grid = GridIdle
    /\ finder = FinderIdle
    /\ range = RangeIdle
    /\ pair = PairIdle
    /\ turn_info = TurnIdle
    /\ turn_log = TurnLogIdle
    /\ tile = TileIdle
    /\ tile_log = TileLogIdle
    /\ attackable = AttackableIdle
    /\ scene = SceneIdle
    /\ scene_log = SceneLogIdle
    /\ path = PathIdle

NextInfo == FromSpec

SpecInfo == InitInfo /\ [][NextInfo]_vars

\* unit_pair_mut on any grid.
InitPair ==
    /\ \E s \in Sizes : \E u \in Placements(s) : grid = GridOf(s, u, GridNew(s).terrain)
    /\ finder = FinderIdle
    /\ range = RangeIdle
    /\ pair = PairIdle
    /\ turn_info = TurnIdle
    /\ turn_log = TurnLogIdle
    /\ tile = TileIdle
    /\ tile_log = TileLogIdle
    /\ attackable = AttackableIdle
    /\ scene = SceneIdle
    /\ scene_log = SceneLogIdle
    /\ path = PathIdle
    /\ call = CallIdle

NextPair == UnitPairMutCall

SpecPair == InitPair /\ [][NextPair]_vars

\* The faction lists State::new accepts: any non-empty list, duplicates
\* allowed.
FactionLists == UNION {[1..n -> Factions] : n \in 1..MaxFactions}

InitTurn ==
    /\ grid = GridIdle
    /\ finder = FinderIdle
    /\ range = RangeIdle
    /\ pair = PairIdle
    /\ \E factions \in FactionLists, actions_left \in 0..MaxActions :
          turn_info = TurnInfoNew(factions, actions_left)
    /\ turn_log = TurnLogIdle
    /\ tile = TileIdle
    /\ tile_log = TileLogIdle
    /\ attackable = AttackableIdle
    /\ scene = SceneIdle
    /\ scene_log = SceneLogIdle
    /\ path = PathIdle
    /\ call = CallIdle

NextTurn == EndTurn \/ SpendAction \/ RemoveFaction

SpecTurn == InitTurn /\ [][NextTurn]_vars

\* A tile of any threshold and owner with no capture in progress.
InitTile ==
    /\ grid = GridIdle
    /\ finder = FinderIdle
    /\ range = RangeIdle
    /\ pair = PairIdle
    /\ turn_info = TurnIdle
    /\ turn_log = TurnLogIdle
    /\ \E threshold \in Amounts, owner \in {None} \cup {Some(f) : f \in Factions} :
          tile = [terrain_capture |-> threshold, faction |-> owner, capture |-> None]
    /\ tile_log = TileLogIdle
    /\ attackable = AttackableIdle
    /\ scene = SceneIdle
    /\ scene_log = SceneLogIdle
    /\ path = PathIdle
    /\ call = CallIdle

NextTile == TileCapture

SpecTile == InitTile /\ [][NextTile]_vars

---------------------------------------------------------------------------
(* Reference definitions the claims are stated with.                       *)

Manhattan(p, q) == Abs(p[1] - q[1]) + Abs(p[2] - q[2])

SeqSet(q) == {q[k] : k \in 1..Len(q)}

\* The cost of a tile no legal path leads to: more than any budget.
Unreachable == 2 * WordMax

\* The minimal accumulated entry cost over the legal orthogonal paths from
\* origin, by exhaustive relaxation: d maps every tile to the least cost of
\* a legal path of at most k steps (Unreachable when there is none).
RECURSIVE RefRelax(_, _, _, _)
RefRelax(g, faction, d, k) ==
    IF k = 0 THEN d
    ELSE RefRelax(g, faction,
            \* (f @@ EmptyMap is f, as an explicit table of its values)
            [p \in Positions(g.size) |->
                IF PathBlocked(g, faction, p) THEN d[p]
                ELSE Min({d[p]} \cup
                         {d[q] + terrain_cost(GridTerrain(g, p)) :
                            q \in {r \in Positions(g.size) : Manhattan(r, p) = 1}})]
            @@ EmptyMap,
            k - 1)

RefCost(g, faction, origin) ==
    RefRelax(g, faction,
             [p \in Positions(g.size) |-> IF p = origin THEN 0 ELSE Unreachable],
             Count(g.size))

FinderDone == finder.pc = "done"

---------------------------------------------------------------------------
(* Claims.                                                                 *)

\* C1: when path_finder returns, a tile is in the cost map iff its minimal
\* accumulated entry cost over legal orthogonal paths from the origin is at
\* most the movement budget, and the mapped value is that minimal cost.
C1_CostMapIsMinimal ==
    FinderDone =>
        LET ref == RefCost(grid, finder.faction, finder.pos)
        IN  \A p \in Positions(grid.size) :
                /\ (p \in DOMAIN finder.costs) <=> (ref[p] <= finder.movement)
                /\ (p \in DOMAIN finder.costs) => finder.costs[p] = ref[p]

\* C2: in every cost map path_finder returns, the origin is mapped with
\* cost 0, whatever the budget and the terrain.
C2_OriginCostZero ==
    FinderDone =>
        /\ finder.pos \in DOMAIN finder.costs
        /\ finder.costs[finder.pos] = 0

\* C3: for min <= max the tiles a Ranged enumeration yields are exactly the
\* in-bounds tiles at Manhattan distance min..max from the origin.
C3_RangedIsAnnulus ==
    (range.it.kind = "Ranged" /\ range.min <= range.max /\ range.status # "running") =>
        /\ range.status = "finished"
        /\ SeqSet(range.yielded) =
             {p \in Positions(grid.size) :
                /\ range.min <= Manhattan(p, range.it.pos)
                /\ Manhattan(p, range.it.pos) <= range.max}

\* The tile d steps from pos along ray `state`.
RayTile(pos, state, d) ==
    <<pos[1] + RayDir(state)[1] * d, pos[2] + RayDir(state)[2] * d>>

\* A unit on an in-bounds tile p that the attacker cannot spear through.
SpearBlocker(g, unit, p) ==
    /\ InBounds(g.size, p[1], p[2])
    /\ IsSome(GridUnit(g, p))
    /\ ~can_spear_through(unit, Unwrap(GridUnit(g, p)))

\* The tiles of the four cardinal rays within `max` steps of pos that no
\* blocker lies strictly before.
SpearTiles(g, unit, pos, max) ==
    {p \in Positions(g.size) :
        \E state \in 0..3, d \in 1..max :
            /\ p = RayTile(pos, state, d)
            /\ \A e \in 1..(d - 1) : ~SpearBlocker(g, unit, RayTile(pos, state, e))}

\* C4: a Spear enumeration never aborts, yields only tiles of SpearTiles,
\* and when it ends has yielded exactly SpearTiles: the first blocking tile
\* of a ray is yielded and nothing beyond it is.
C4_SpearStopsAtBlocker ==
    range.it.kind = "Spear" =>
        LET want == SpearTiles(grid, Unwrap(range.it.unit), range.it.pos, range.max)
        IN  /\ range.status # "aborted"
            /\ SeqSet(range.yielded) \subseteq want
            /\ range.status = "finished" => SeqSet(range.yielded) = want

\* A finished spear enumeration with a blocker on a ray, within range, and an
\* in-bounds tile behind it that is also within range.
C4_Witness ==
    /\ range.it.kind = "Spear"
    /\ range.status = "finished"
    /\ \E state \in 0..3, d \in 1..(range.max - 1) :
          /\ SpearBlocker(grid, Unwrap(range.it.unit), RayTile(range.it.pos, state, d))
          /\ RayTile(range.it.pos, state, d) \in SeqSet(range.yielded)
          /\ RayTile(range.it.pos, state, d + 1) \in Positions(grid.size)
          /\ RayTile(range.it.pos, state, d + 1) \notin SeqSet(range.yielded)

\* C5: unit_pair_mut(a, b) returns None for a = b, and for a # b succeeds
\* with the slot of tile a first and the slot of tile b second.
C5_PairIsSlotsOfAAndB ==
    pair.called =>
        IF pair.a = pair.b
        THEN pair.out = None
        ELSE pair.out = Some(<<Index(grid, pair.a), Index(grid, pair.b)>>)

\* The last TurnInfo operation was remove_faction(f).
Removed(f) == turn_log.last.op = "remove_faction" /\ turn_log.last.arg = f

\* The entries of a faction list other than f, in order.
Without(factions, f) ==
    LET Keep(x) == x # f
    IN  SelectSeq(factions, Keep)

\* How many entries before the (0-based) index c are not f: the index the
\* entry at c has once every f before it is gone.
KeptBefore(factions, c, f) == Cardinality({k \in 1..c : factions[k] # f})

\* C6: remove_faction(f) on a list with an entry other than f leaves no f,
\* keeps the other entries in order and leaves current a valid index; from
\* [Red, Blue] with current Red, removing Red leaves [Blue], current Blue.
C6_RemoveKeepsCurrentValid ==
    \A f \in Factions :
        (Removed(f) /\ Without(turn_log.last.before.factions, f) # <<>>) =>
            /\ \A k \in 1..Len(turn_info.factions) : turn_info.factions[k] # f
            /\ turn_info.factions = Without(turn_log.last.before.factions, f)
            /\ 0 <= turn_info.current
            /\ turn_info.current < Len(turn_info.factions)
            /\ (turn_log.last.before.factions = <<"Red", "Blue">>
                    /\ turn_log.last.before.current = 0 /\ f = "Red")
                => (turn_info.factions = <<"Blue">> /\ current_faction(turn_info) = "Blue")

\* [Red, Blue] with current Red, after remove_faction(Red).
C6_Witness ==
    /\ Removed("Red")
    /\ turn_log.last.before.factions = <<"Red", "Blue">>
    /\ turn_log.last.before.current = 0
    /\ turn_info.factions = <<"Blue">>

\* C7: remove_faction(f) with f other than the current faction leaves
\* current_faction() unchanged; current stays on the entry it was on.
C7_RemoveOtherKeepsCurrent ==
    \A f \in Factions :
        (Removed(f) /\ f # current_faction(turn_log.last.before)) =>
            /\ current_faction(turn_info) = current_faction(turn_log.last.before)
            /\ turn_info.current =
                 KeptBefore(turn_log.last.before.factions, turn_log.last.before.current, f)

\* A removal of another faction that deleted two entries, one of them
\* before the current one.
C7_Witness ==
    \E f \in Factions :
        /\ Removed(f)
        /\ f # current_faction(turn_log.last.before)
        /\ Len(turn_log.last.before.factions) >= Len(turn_info.factions) + 2
        /\ turn_info.current < turn_log.last.before.current
        /\ Len(turn_info.factions) >= 2

\* The faction of the first entry other than f after the (0-based) index c,
\* in circular order.
Follower(factions, c, f) ==
    LET n == Len(factions)
        at(k) == factions[((c + k) % n) + 1]
        first == Min({k \in 1..n : at(k) # f})
    IN  at(first)

\* end_turn() was called right after a remove_faction(f) that removed the
\* current faction and left another one.
TurnAfterRemovedCurrent(f) ==
    /\ turn_log.last.op = "end_turn"
    /\ turn_log.prev.op = "remove_faction"
    /\ turn_log.prev.arg = f
    /\ current_faction(turn_log.prev.before) = f
    /\ Without(turn_log.prev.before.factions, f) # <<>>

\* C8: when remove_faction(f) removed the current faction and others
\* remain, the next end_turn() gives the turn to the entry that followed
\* the removed one in the circular order.
C8_RemovedCurrentRotatesFairly ==
    \A f \in Factions :
        TurnAfterRemovedCurrent(f) =>
            /\ turn_info.current =
                 KeptBefore(turn_log.prev.before.factions, turn_log.prev.before.current, f)
                    % Len(turn_info.factions)
            /\ current_faction(turn_info) =
                 Follower(turn_log.prev.before.factions, turn_log.prev.before.current, f)

\* Such a turn with two entries left, the removed entry not the first.
C8_Witness ==
    \E f \in Factions :
        /\ TurnAfterRemovedCurrent(f)
        /\ Len(turn_info.factions) >= 2
        /\ turn_log.prev.before.current >= 1
        /\ turn_info.current >= 1

\* The last Tile::capture call was made by a faction other than the one
\* whose capture was in progress.
CaptureByOther ==
    /\ tile_log.calls > 0
    /\ IsSome(tile_log.before.capture)
    /\ Unwrap(tile_log.before.capture)[1] # tile_log.faction

\* C9: a capture by faction B on a tile holding in-progress capture state
\* of another faction A completes without aborting, discards A's progress
\* and starts B's progress from B's own contribution.
C9_OtherFactionResetsProgress ==
    CaptureByOther =>
        /\ tile_log.out # Panic
        /\ IF tile_log.amount >= tile.terrain_capture
           THEN tile_log.out = Some(TRUE) /\ tile.capture = None
           ELSE tile_log.out = Some(FALSE)
                /\ tile.capture = Some(<<tile_log.faction, tile_log.amount>>)

\* C10: a capture call that completes returns true exactly when the amounts
\* contributed since the last reset sum to at least the terrain's threshold;
\* it then sets the owner and clears the progress, and otherwise leaves the
\* owner and stores (faction, sum).
C10_CaptureAtThreshold ==
    (tile_log.calls > 0 /\ tile_log.out # Panic) =>
        /\ tile_log.out = Some(tile_log.sum >= tile.terrain_capture)
        /\ tile_log.out = Some(TRUE) =>
              /\ tile.faction = Some(tile_log.faction)
              /\ tile.capture = None
        /\ tile_log.out = Some(FALSE) =>
              /\ tile.faction = tile_log.before.faction
              /\ tile.capture = Some(<<tile_log.faction, tile_log.sum>>)

\* A third call that reaches the threshold exactly, with less than the
\* threshold contributed by the call itself, on a tile another faction owned.
C10_Witness ==
    /\ tile_log.calls = 3
    /\ tile_log.out = Some(TRUE)
    /\ tile_log.sum = tile.terrain_capture
    /\ tile_log.amount < tile.terrain_capture
    /\ IsSome(tile_log.before.faction)
    /\ tile_log.before.faction # Some(tile_log.faction)
    /\ tile.faction = Some(tile_log.faction)

\* The in-bounds orthogonal neighbours of tile p.
Neighbours(g, p) == {n \in Positions(g.size) : Manhattan(n, p) = 1}

\* C16: in a returned cost map, for every mapped tile t with cost c and
\* every in-bounds orthogonal neighbour n not held by a unit of another
\* faction, if c + entry_cost(n) is within the budget then n is mapped with
\* a cost of at most c + entry_cost(n).
C16_ClosedUnderAffordableStep ==
    FinderDone =>
        \A t \in DOMAIN finder.costs : \A n \in Neighbours(grid, t) :
            (/\ ~PathBlocked(grid, finder.faction, n)
             /\ finder.costs[t] + terrain_cost(GridTerrain(grid, n)) <= finder.movement)
            => /\ n \in DOMAIN finder.costs
               /\ finder.costs[n] <= finder.costs[t] + terrain_cost(GridTerrain(grid, n))

\* A returned map with a tile n, not the origin, mapped at exactly the cost
\* of the step from t, although a costlier mapped neighbour m could also
\* afford the step; and a free tile next to a mapped one that the budget
\* does not reach.
C16_Witness ==
    /\ FinderDone
    /\ \E t \in DOMAIN finder.costs : \E n \in Neighbours(grid, t) :
          /\ n # finder.pos
          /\ n \in DOMAIN finder.costs
          /\ finder.costs[n] = finder.costs[t] + terrain_cost(GridTerrain(grid, n))
          /\ \E m \in Neighbours(grid, n) :
                /\ m \in DOMAIN finder.costs
                /\ finder.costs[m] > finder.costs[n]
                /\ finder.costs[m] + terrain_cost(GridTerrain(grid, n)) <= finder.movement
    /\ \E t \in DOMAIN finder.costs : \E n \in Neighbours(grid, t) :
          /\ ~PathBlocked(grid, finder.faction, n)
          /\ n \notin DOMAIN finder.costs

\* Tile p holds a unit of a faction other than `faction`.
HeldByOther(g, faction, p) ==
    \E f \in Factions \ {faction} : GridUnit(g, p) = Some(MkUnit(f))

\* Tile p holds a unit of `faction`.
HeldByOwn(g, faction, p) == GridUnit(g, p) = Some(MkUnit(faction))

\* The cost of tile t as the source of a step: the mapped cost, and 0 for
\* the origin the search starts from.
StepCosts(t) ==
    (IF t \in DOMAIN finder.costs THEN {finder.costs[t]} ELSE {})
        \cup (IF t = finder.pos THEN {0} ELSE {})

\* C17: in a returned cost map no tile held by a unit of another faction is
\* mapped, and every mapped cost is the cost of a step from the origin or
\* from a mapped tile (so of a path that enters no such tile); a tile held
\* by a unit of the mover's own faction is entered like a free one.
C17_OtherFactionTilesNeverEntered ==
    FinderDone =>
        /\ \A p \in DOMAIN finder.costs : ~HeldByOther(grid, finder.faction, p)
        /\ \A p \in DOMAIN finder.costs :
              \E q \in Neighbours(grid, p) : \E c \in StepCosts(q) :
                  /\ ~HeldByOther(grid, finder.faction, q)
                  /\ finder.costs[p] = c + terrain_cost(GridTerrain(grid, p))
        /\ \A n \in Positions(grid.size) :
              (/\ HeldByOwn(grid, finder.faction, n)
               /\ \E t \in Neighbours(grid, n) : \E c \in StepCosts(t) :
                     c + terrain_cost(GridTerrain(grid, n)) <= finder.movement)
              => n \in DOMAIN finder.costs

\* A returned map with a unit of another faction on a tile the budget would
\* reach from a mapped neighbour, and a mapped tile behind it that costs
\* more than the straight path through it would.
C17_Witness ==
    /\ FinderDone
    /\ \E e \in Positions(grid.size) :
          /\ HeldByOther(grid, finder.faction, e)
          /\ e \notin DOMAIN finder.costs
          /\ \E t \in Neighbours(grid, e) : \E c \in StepCosts(t) :
                /\ c + terrain_cost(GridTerrain(grid, e)) <= finder.movement
                /\ \E b \in Neighbours(grid, e) \ {t} :
                      /\ b \in DOMAIN finder.costs
                      /\ finder.costs[b] > c + terrain_cost(GridTerrain(grid, e))
                                             + terrain_cost(GridTerrain(grid, b))

\* C18: with entry cost 1 on every tile and no unit but the mover, the
\* mapped set for budget B at origin o is the set of in-bounds tiles within
\* Manhattan distance B of o, the origin included.
C18_UniformCostIsManhattanBall ==
    (/\ FinderDone
     /\ \A p \in Positions(grid.size) : GridTerrain(grid, p) = "Grass"
     /\ \A p \in Positions(grid.size) \ {finder.pos} : GridUnit(grid, p) = None)
    => DOMAIN finder.costs =
         {p \in Positions(grid.size) : Manhattan(p, finder.pos) <= finder.movement}

\* The four orthogonal neighbours of pos that lie on a grid of the size.
OrthogonalInBounds(size, pos) ==
    {<<pos[1] + 1, pos[2]>>, <<pos[1] - 1, pos[2]>>,
     <<pos[1], pos[2] + 1>>, <<pos[1], pos[2] - 1>>} \cap Positions(size)

\* C19: a Melee enumeration never aborts, yields only in-bounds orthogonal
\* neighbours of its position, each once, and when it ends has yielded all
\* of them, for every grid size and position.
C19_MeleeIsInBoundsNeighbours ==
    range.it.kind = "Melee" =>
        /\ range.status # "aborted"
        /\ SeqSet(range.yielded) \subseteq OrthogonalInBounds(grid.size, range.it.pos)
        /\ Cardinality(SeqSet(range.yielded)) = Len(range.yielded)
        /\ range.status = "finished" =>
              SeqSet(range.yielded) = OrthogonalInBounds(grid.size, range.it.pos)

\* A finished melee enumeration from a corner of a grid at least 2x2: two of
\* the four neighbours are off the grid and two were yielded.
C19_Witness ==
    /\ range.it.kind = "Melee"
    /\ range.status = "finished"
    /\ range.it.pos = <<0, 0>>
    /\ grid.size[1] >= 2
    /\ grid.size[2] >= 2
    /\ Len(range.yielded) = 2

\* The raw range enumeration of a TilesInRange iterator: the tiles it
\* yields, in order, and whether it ends by aborting.
RECURSIVE RawRange(_, _)
RawRange(it, acc) ==
    LET r == TilesInRangeNext(it)
    IN  IF r.out = None THEN [tiles |-> acc, aborted |-> FALSE]
        ELSE IF r.out = Panic THEN [tiles |-> acc, aborted |-> TRUE]
        ELSE RawRange(r.it, Append(acc, Unwrap(r.out)))

\* The tiles of a sequence that hold a unit of a faction other than the
\* attacker's, in order.
HostileTiles(g, faction, tiles) ==
    LET Hostile(p) == \E f \in Factions \ {faction} : GridUnit(g, p) = Some(MkUnit(f))
    IN  SelectSeq(tiles, Hostile)

\* C20: the tiles FindAttackable yields are, in the order of the raw range
\* enumeration, exactly the tiles of that enumeration holding a unit of a
\* faction other than the attacker's, each with the unit on it; it never
\* yields an empty tile or a tile of the attacker's faction, and it ends as
\* the raw enumeration ends.
C20_FindAttackableFiltersRawRange ==
    attackable.status # "idle" =>
        LET raw == RawRange(attackable.start.tiles, <<>>)
            want == HostileTiles(grid, attackable.start.unit.faction, raw.tiles)
            n == Len(attackable.yielded)
        IN  /\ n <= Len(want)
            /\ \A k \in 1..n :
                  /\ attackable.yielded[k][1] = want[k]
                  /\ GridUnit(grid, want[k]) = Some(attackable.yielded[k][2])
                  /\ attackable.yielded[k][2].faction # attackable.start.unit.faction
            /\ attackable.status = "finished" => (n = Len(want) /\ ~raw.aborted)
            /\ attackable.status = "aborted" => (n = Len(want) /\ raw.aborted)

\* A finished enumeration whose raw range holds a hostile unit, then a unit
\* of the attacker's faction, then a hostile unit, and an empty tile: the
\* two hostile tiles were yielded, in that order.
C20_Witness ==
    /\ attackable.status = "finished"
    /\ Len(attackable.yielded) = 2
    /\ LET raw == RawRange(attackable.start.tiles, <<>>).tiles
       IN  /\ \E i, j, k \in 1..Len(raw) :
                /\ i < j
                /\ j < k
                /\ raw[i] = attackable.yielded[1][1]
                /\ GridUnit(grid, raw[j]) = Some(attackable.start.unit)
                /\ raw[k] = attackable.yielded[2][1]
           /\ \E e \in 1..Len(raw) : GridUnit(grid, raw[e]) = None

\* C15: on every cost map path_finder returns and for every mapped target,
\* random_path_rev never stops on a tile other than the origin without a
\* strictly-lower-cost neighbour; the tiles it yields are orthogonally
\* adjacent, their mapped costs strictly decrease, and when it ends it is
\* at the origin.
C15_RandomPathReachesOrigin ==
    path.status # "idle" =>
        /\ path.status # "aborted"
        /\ \A k \in 1..Len(path.yielded) :
              LET next == IF k < Len(path.yielded) THEN path.yielded[k + 1] ELSE path.cur
              IN  /\ Manhattan(path.yielded[k], next) = 1
                  /\ finder.costs[next] < finder.costs[path.yielded[k]]
        /\ path.status = "finished" => path.cur = path.origin

\* The tiles the unit on `at` attacks before it has moved: the in-bounds
\* orthogonal neighbours (Melee), the tiles at Manhattan distance min..max
\* (Ranged), the tiles of the four rays up to the first blocker (Spear).
PreMoveTiles(g, unit, at) ==
    LET a == KindInfo(unit.kind).attack
    IN  CASE a.kind = "Melee" -> OrthogonalInBounds(g.size, at)
          [] a.kind = "Ranged" ->
                {p \in Positions(g.size) :
                    a.min <= Manhattan(p, at) /\ Manhattan(p, at) <= a.max}
          [] a.kind = "Spear" -> SpearTiles(g, unit, at, a.max)

\* The last message handled was AttackWithUnit and the handler returned.
Attacked == scene_log.event = "attacked" /\ scene.status = "running"

\* C11: when AttackWithUnit(pos, target) has been handled, the attacker
\* has received retaliation damage iff the defender survived and pos lies
\* in the defender's pre-move range from target; otherwise the attacker is
\* back on pos as it was, and a destroyed defender has dealt no damage.
C11_RetaliationIffSurvivedInRange ==
    Attacked =>
        LET before == scene_log.before
            pos == scene_log.pos
            target == scene_log.target
            attacker == Unwrap(GridUnit(before, pos))
            survived == IsSome(GridUnit(grid, target))
            in_range == pos \in PreMoveTiles(before, Unwrap(GridUnit(before, target)), target)
        IN  /\ scene_log.retaliated <=> (survived /\ in_range)
            /\ ~scene_log.retaliated => GridUnit(grid, pos) = Some(attacker)
            /\ scene_log.retaliated =>
                  LET hurt == receive_damage(attacker,
                                  attack_damage(Unwrap(GridUnit(grid, target)), attacker,
                                                GridTerrain(before, pos)))
                  IN  GridUnit(grid, pos) = IF hurt.health = 0 THEN None ELSE Some(hurt)

\* An attack whose defender survived and struck back, the attacker losing
\* health but not its life.
C11_Witness ==
    /\ Attacked
    /\ scene_log.retaliated
    /\ IsSome(GridUnit(grid, scene_log.pos))
    /\ Unwrap(GridUnit(grid, scene_log.pos)).health
          < Unwrap(GridUnit(scene_log.before, scene_log.pos)).health

\* C12: after AttackWithUnit(pos, target) has been handled no unit of
\* health 0 is on the grid: a destroyed target is gone from its tile, a
\* destroyed attacker is not on pos, a surviving unit is on its tile with
\* its faction and kind, and no tile but pos and target has changed.
C12_NoDeadUnitAfterAttack ==
    Attacked =>
        LET before == scene_log.before
            pos == scene_log.pos
            target == scene_log.target
            Same(u, v) == u.faction = v.faction /\ u.kind = v.kind
        IN  /\ \A u \in GridUnits(grid) : u.health > 0
            /\ IF scene_log.target_destroyed
               THEN GridUnit(grid, target) = None
               ELSE /\ IsSome(GridUnit(grid, target))
                    /\ Same(Unwrap(GridUnit(grid, target)), Unwrap(GridUnit(before, target)))
            /\ IF scene_log.attacker_destroyed
               THEN GridUnit(grid, pos) = None
               ELSE /\ IsSome(GridUnit(grid, pos))
                    /\ Same(Unwrap(GridUnit(grid, pos)), Unwrap(GridUnit(before, pos)))
            /\ grid.size = before.size
            /\ grid.terrain = before.terrain
            /\ \A p \in Positions(grid.size) \ {pos, target} :
                  GridUnit(grid, p) = GridUnit(before, p)

\* An attack that cost the attacker its life, next to a third unit.
C12_Witness ==
    /\ Attacked
    /\ scene_log.attacker_destroyed
    /\ GridUnit(grid, scene_log.pos) = None
    /\ IsSome(GridUnit(grid, scene_log.target))
    /\ Cardinality({p \in Positions(grid.size) : IsSome(GridUnit(grid, p))}) = 2

\* The factions reported defeated by the last handler.
ReportedDefeated ==
    {f \in Factions : <<"FactionDefeated", f>> \in SeqSet(scene_log.pushed)}

\* The factions that lost a unit in the attack just handled.
LostUnit ==
    {Unwrap(GridUnit(scene_log.before, p)).faction :
        p \in {q \in {scene_log.pos, scene_log.target} : GridUnit(grid, q) = None}}

\* C13: the handler of an attack queues FactionDefeated(f), once, exactly
\* for the factions f that lost a unit in it and have no unit left on the
\* grid; no other message handled queues one.
C13_FactionDefeatedIffLastUnitDestroyed ==
    /\ Attacked =>
          /\ ReportedDefeated =
                {f \in LostUnit : \A u \in GridUnits(grid) : u.faction # f}
          /\ \A i, j \in 1..Len(scene_log.pushed) :
                (scene_log.pushed[i][1] = "FactionDefeated"
                    /\ scene_log.pushed[i] = scene_log.pushed[j]) => i = j
    /\ scene_log.event # "attacked" => ReportedDefeated = {}

\* A unit was destroyed, another unit of its faction is left, and nothing
\* was reported.
C13_Witness ==
    /\ Attacked
    /\ LostUnit # {}
    /\ \A f \in LostUnit : \E u \in GridUnits(grid) : u.faction = f
    /\ ReportedDefeated = {}

\* C14: a unit that has just been selected, has just started a move or has
\* just attacked belonged, at that moment, to the current faction, with
\* actions left and its spent flag false.
C14_OnlyActiveUnitsAct ==
    scene_log.event \in {"selected", "moved", "attacked"} =>
        LET unit == Unwrap(scene_log.unit)
        IN  /\ unit.faction = current_faction(scene_log.ti)
            /\ scene_log.ti.actions_left > 0
            /\ ~unit.spent

\* The tiles holding a unit that the unit on `at`, which came from origin,
\* may attack: none for a ranged unit that has moved, else the hostile
\* units of its range rooted at `at`.
MovedTargets(g, origin, at) ==
    LET unit == Unwrap(GridUnit(g, at))
    IN  IF origin # at /\ KindInfo(unit.kind).attack.kind = "Ranged" THEN {}
        ELSE {p \in PreMoveTiles(g, unit, at) :
                /\ IsSome(GridUnit(g, p))
                /\ Unwrap(GridUnit(g, p)).faction # unit.faction}

\* The menus and target selectors that are open or about to be opened.
OpenModals ==
    {scene.modals[k] : k \in 1..Len(scene.modals)}
        \cup {scene.pending[k][2] : k \in {j \in 1..Len(scene.pending) :
                                              scene.pending[j][1] = "Push"}}

\* C21: the menu opened when a unit arrives offers Attack exactly when
\* the unit has a target, and the target selector lists exactly its
\* targets, where a ranged unit that has left its origin has none, a
\* melee or spear unit has the hostile units of its range rooted at the
\* destination, and a unit that stayed on its origin has those of its
\* pre-move range.
C21_MovedRangedHasNoTargets ==
    scene.status = "running" =>
        \A m \in OpenModals :
            /\ m[1] = "Menu" =>
                  /\ IsSome(GridUnit(grid, m[5]))
                  /\ (\E k \in 1..Len(m[2]) : m[2][k] = "Attack")
                        <=> MovedTargets(grid, m[4], m[5]) # {}
            /\ m[1] = "TargetSelector" =>
                  /\ IsSome(GridUnit(grid, m[2]))
                  /\ SeqSet(m[4]) = MovedTargets(grid, m[3], m[2])

\* An archer that has moved stands two or three tiles from an enemy and
\* is offered Wait only.
C21_Witness ==
    /\ scene.status = "running"
    /\ \E m \in OpenModals :
          /\ m[1] = "Menu"
          /\ m[4] # m[5]
          /\ m[2] = <<"Wait">>
          /\ IsSome(GridUnit(grid, m[5]))
          /\ KindInfo(Unwrap(GridUnit(grid, m[5])).kind).attack.kind = "Ranged"
          /\ \E p \in PreMoveTiles(grid, Unwrap(GridUnit(grid, m[5])), m[5]) :
                /\ IsSome(GridUnit(grid, p))
                /\ Unwrap(GridUnit(grid, p)).faction # Unwrap(GridUnit(grid, m[5])).faction

\* C22: no enumeration of an attack range aborts: every call of next()
\* yields a tile or ends the enumeration with None.
C22_RangeEndsWithoutAbort == range.status # "aborted"

\* C23: after end_turn() the budget is max_actions_left and the turn has
\* passed to the next entry, wrapping around; after n end_turn() calls in
\* a row on a list of n entries every entry has held the turn exactly
\* once and the turn is back at the entry it started from.
C23_EndTurnRotates ==
    LET n == Len(turn_info.factions)
        k == Len(turn_log.turns)
    IN  /\ turn_log.last.op = "end_turn" =>
              /\ turn_info.actions_left = turn_info.max_actions_left
              /\ turn_info.current = (turn_log.last.before.current + 1) % n
              /\ turn_info.factions = turn_log.last.before.factions
              /\ turn_info.max_actions_left = turn_log.last.before.max_actions_left
        /\ (n > 0 /\ k >= n) =>
              /\ {turn_log.turns[j] : j \in (k - n + 1)..k} = 0..(n - 1)
              /\ turn_info.current = turn_log.turns[k - n + 1]

\* Three end_turn() calls in a row on a list of three entries, started by
\* the middle entry.
C23_Witness ==
    /\ Len(turn_info.factions) = 3
    /\ turn_info.max_actions_left > 0
    /\ turn_log.turns = <<1, 2, 0>>

\* The FactionWins messages the last handler has queued.
WinsQueued ==
    {scene_log.pushed[k] : k \in {j \in 1..Len(scene_log.pushed) :
                                     scene_log.pushed[j][1] = "FactionWins"}}

\* C24: the handler of FactionDefeated(f) queues FactionWins(g) exactly
\* when the entries left after removing f are all g; it queues nothing
\* while two distinct factions remain.
C24_WinsIffOneFactionLeft ==
    scene_log.event = "defeated" =>
        LET rest == Without(scene_log.ti.factions, scene_log.faction)
        IN  WinsQueued =
                IF rest # <<>> /\ \A k \in 1..Len(rest) : rest[k] = rest[1]
                THEN {<<"FactionWins", rest[1]>>}
                ELSE {}

\* Removing a faction leaves several entries, all of one faction, which
\* is declared the winner.
C24_Witness ==
    /\ scene_log.event = "defeated"
    /\ scene.status = "running"
    /\ Len(turn_info.factions) >= 2
    /\ Len(scene_log.ti.factions) > Len(turn_info.factions)
    /\ WinsQueued = {<<"FactionWins", turn_info.factions[1]>>}

\* C25: receiving damage a at health h leaves the health max(0, h - a),
\* a value of 0..h, and reports the unit destroyed exactly when the
\* health left is 0; receive_damage with the whole amount a leaves the
\* same health.
C25_HealthIsClampedDifference ==
    (call.op = "receive_attack" /\ call.status = "returned") =>
        LET h == call.args[1]
            a == call.args[2]
        IN  /\ call.out[1] = (IF h - a > 0 THEN h - a ELSE 0)
            /\ call.out[1] \in 0..h
            /\ call.out[2] <=> call.out[1] = 0
            /\ receive_damage([health |-> h], 1000 * a).health = call.out[1]

\* A unit receives more damage than it has health.
C25_Witness ==
    /\ call.op = "receive_attack"
    /\ call.status = "returned"
    /\ call.args[1] > 0
    /\ call.args[2] > call.args[1]
    /\ call.out = <<0, TRUE>>

\* C26: the damage of an attack is never negative, and it is 0 when the
\* attacker's health is 0, whatever the sign of the defense term
\* 1 - defense_bonus * defender.health / 10.
C26_DamageIsNonNegative ==
    (call.op = "attack_damage" /\ call.status = "returned") =>
        /\ call.out >= 0
        /\ call.args[3] = 0 => call.out = 0

\* The defense term is negative and the clamp gives 0 to an attacker with
\* health left.
C26_Witness ==
    /\ call.op = "attack_damage"
    /\ call.status = "returned"
    /\ call.args[1] > 0 /\ call.args[2] > 0 /\ call.args[3] > 0
    /\ call.args[4] * call.args[5] > 100
    /\ call.out = 0

\* The grids have the same size and terrain, and the same unit on every
\* tile outside `tiles`.
SameExcept(g, h, tiles) ==
    /\ g.size = h.size
    /\ g.terrain = h.terrain
    /\ \A p \in Positions(g.size) : p \notin tiles => GridUnit(g, p) = GridUnit(h, p)

\* C27: move_unit(from, to) with from # to, a unit on from and none on to
\* puts that unit on to, empties from and changes neither the unit of any
\* other tile nor the terrain; with a unit on to it aborts, and the unit
\* on to is still the one that was there.
C27_MoveUnitMovesOrAborts ==
    (call.op = "move_unit" /\ InBounds(grid.size, call.args[1][1], call.args[1][2])
        /\ InBounds(grid.size, call.args[2][1], call.args[2][2])
        /\ call.args[1] # call.args[2]) =>
        LET from == call.args[1]
            to == call.args[2]
            before == call.out
        IN  /\ (IsSome(GridUnit(before, from)) /\ GridUnit(before, to) = None) =>
                  /\ call.status = "returned"
                  /\ GridUnit(grid, to) = GridUnit(before, from)
                  /\ GridUnit(grid, from) = None
                  /\ SameExcept(grid, before, {from, to})
            /\ IsSome(GridUnit(before, to)) =>
                  /\ call.status = "aborted"
                  /\ GridUnit(grid, to) = GridUnit(before, to)
                  /\ SameExcept(grid, before, {from})

\* A unit was to be moved onto a unit of the other faction.
C27_Witness ==
    /\ call.op = "move_unit"
    /\ call.status = "aborted"
    /\ call.args[1] # call.args[2]
    /\ InBounds(grid.size, call.args[1][1], call.args[1][2])
    /\ InBounds(grid.size, call.args[2][1], call.args[2][2])
    /\ IsSome(GridUnit(call.out, call.args[1]))
    /\ IsSome(GridUnit(call.out, call.args[2]))
    /\ GridUnit(call.out, call.args[1]) # GridUnit(call.out, call.args[2])

\* C28: add_unit(unit, pos) on an occupied tile aborts and the unit that
\* was on pos is still there; on an empty tile of the grid it returns
\* with the unit on pos; either way no other tile and no terrain changes.
C28_AddUnitPlacesOrAborts ==
    (call.op = "add_unit" /\ InBounds(grid.size, call.args[2][1], call.args[2][2])) =>
        LET unit == call.args[1]
            pos == call.args[2]
            before == call.out
        IN  /\ SameExcept(grid, before, {pos})
            /\ IF IsSome(GridUnit(before, pos))
               THEN call.status = "aborted" /\ GridUnit(grid, pos) = GridUnit(before, pos)
               ELSE call.status = "returned" /\ GridUnit(grid, pos) = Some(unit)

\* A unit was to be added on a tile holding a unit of the other faction,
\* with a third tile occupied as well.
C28_Witness ==
    /\ call.op = "add_unit"
    /\ call.status = "aborted"
    /\ InBounds(grid.size, call.args[2][1], call.args[2][2])
    /\ IsSome(GridUnit(call.out, call.args[2]))
    /\ GridUnit(grid, call.args[2]) # Some(call.args[1])
    /\ Cardinality(GridUnits(grid)) = 2

\* C29: confirming a move onto a tile that another unit occupies ends the
\* handler with the game running and with the grid, the turn state, the
\* selection (unit and cost map), the cursor, the active unit and the
\* modal stack with its pending requests as they were; nothing is queued.
C29_RefusedMoveChangesNothing ==
    scene_log.event = "refused" =>
        LET prior == Unwrap(scene_log.prior)
        IN  /\ scene_log.target # scene_log.pos
            /\ IsSome(GridUnit(scene_log.before, scene_log.target))
            /\ scene.status = "running"
            /\ grid = scene_log.before
            /\ turn_info = scene_log.ti
            /\ IsSome(scene.selected)
            /\ Unwrap(scene.selected).pos = scene_log.pos
            /\ scene.selected = prior.selected
            /\ scene.cursor = prior.cursor
            /\ scene.active_unit = prior.active_unit
            /\ scene.modals = prior.modals
            /\ scene.pending = prior.pending
            /\ scene.will_pop_modals = prior.will_pop_modals
            /\ scene_log.pushed = <<>>

\* The selected unit was to move onto a tile of its cost map that another
\* unit of its faction stands on.
C29_Witness ==
    /\ scene_log.event = "refused"
    /\ IsSome(scene.selected)
    /\ scene_log.target \in DOMAIN Unwrap(scene.selected).costs
    /\ IsSome(GridUnit(grid, scene_log.pos))
    /\ IsSome(GridUnit(grid, scene_log.target))
    /\ Unwrap(GridUnit(grid, scene_log.target)).faction
          = Unwrap(GridUnit(grid, scene_log.pos)).faction

\* The spec has one of the defects that must be refused.
SpecDefects(spec) ==
    {d \in {"unknown terrain", "missing cost", "unknown range kind",
            "missing range field", "unknown movement class"} :
        CASE d = "unknown terrain" ->
                \E c \in DOMAIN spec.movement_classes :
                    ~(DOMAIN spec.movement_classes[c] \subseteq spec.terrain)
          [] d = "missing cost" ->
                \E c \in DOMAIN spec.movement_classes :
                    ~(spec.terrain \subseteq DOMAIN spec.movement_classes[c])
          [] d = "unknown range kind" ->
                \E r \in DOMAIN spec.roles :
                    spec.roles[r].range.kind \notin {"melee", "ranged", "spear"}
          [] d = "missing range field" ->
                \E r \in DOMAIN spec.roles :
                    \/ /\ spec.roles[r].range.kind = "ranged"
                       /\ None \in {spec.roles[r].range.min, spec.roles[r].range.max}
                    \/ /\ spec.roles[r].range.kind = "spear"
                       /\ spec.roles[r].range.range = None
          [] d = "unknown movement class" ->
                \E r \in DOMAIN spec.roles :
                    spec.roles[r].class \notin DOMAIN spec.movement_classes}

\* C30: GameInfo::from_spec returns an error, and no GameInfo, for a spec
\* in which a movement class has a cost for a terrain that does not
\* exist or lacks the cost of one that does, a range kind is not
\* recognized, a ranged or spear range lacks a field it needs, or a role
\* names a movement class that does not exist; in the GameInfo it returns
\* otherwise the cost table of every movement class has exactly the
\* terrain names as its keys.
C30_FromSpecRefusesDefects ==
    (call.op = "from_spec" /\ call.status = "returned") =>
        /\ SpecDefects(call.args[1]) # {} => call.out[1] = "Err"
        /\ call.out[1] = "Ok" =>
              /\ \A c \in DOMAIN call.out[2].movement_classes :
                    DOMAIN call.out[2].movement_classes[c] = call.out[2].terrain
              /\ call.out[2].terrain = call.args[1].terrain
              /\ DOMAIN call.out[2].movement_classes = DOMAIN call.args[1].movement_classes
              /\ DOMAIN call.out[2].roles = DOMAIN call.args[1].roles

\* A spec whose only defect is a movement class without a cost for one of
\* the two terrains is refused.
C30_Witness ==
    /\ call.op = "from_spec"
    /\ call.status = "returned"
    /\ call.out[1] = "Err"
    /\ SpecDefects(call.args[1]) = {"missing cost"}
    /\ Cardinality(call.args[1].terrain) = 2
    /\ DOMAIN call.args[1].roles # {}

\* The units that are alive: those on the grid, the one a UnitMover holds
\* (on the modal stack or about to be pushed) and the active unit.
AliveUnits ==
    GridUnits(grid)
        \cup {Unwrap(m[2]) : m \in {x \in OpenModals : x[1] = "UnitMover" /\ IsSome(x[2])}}
        \cup (IF IsSome(scene.active_unit) THEN {Unwrap(scene.active_unit)[2]} ELSE {})

\* C31: the faction of every unit that is alive, on the grid or on its
\* way between two tiles, is still in the turn rotation.
C31_NoFactionRemovedWhileUnitAlive ==
    \A u \in AliveUnits : u.faction \in SeqSet(turn_info.factions)

\* C32: a Scene::update that finds no unit on the grid for any faction of
\* the rotation leaves the game running with an empty faction list.
C32_AllDefeatedIsNoContest ==
    [][(/\ scene.status = "running"
        /\ scene.queue = <<>>
        /\ scene'.inputs # scene.inputs + 1
        /\ turn_info.factions # <<>>
        /\ \A u \in GridUnits(grid) : u.faction \notin SeqSet(turn_info.factions))
          => (scene'.status = "running" /\ turn_info'.factions = <<>>)]_vars


\* C34: when an ApplyOneModal message is handled, the request it applies is
\* the oldest one still pending, so requests are applied in the order in
\* which they were made.
C34_ModalsAppliedInRequestOrder ==
    [][(/\ scene.status = "running"
        /\ scene'.status = "running"
        /\ scene.queue # <<>>
        /\ Head(scene.queue) = <<"ApplyOneModal">>
        /\ Len(scene'.pending) = Len(scene.pending) - 1)
          => scene'.pending = Tail(scene.pending)]_vars


\* C33: while a unit is selected the cursor is on a tile its path finder
\* can move to, and the assertion of move_selected_unit_and_act on an
\* unreachable target has never failed.
C33_CursorStaysReachable ==
    /\ IsSome(scene.selected) =>
            can_move_to(Unwrap(scene.selected).costs, scene.cursor)
    /\ scene_log.event # "unreachable"


\* The Pop and Break requests among the pending modal requests.
PendingPops ==
    Cardinality({i \in DOMAIN scene.pending : scene.pending[i][1] \in {"Pop", "Break"}})

\* C35: will_pop_modals is the number of pending Pop and Break requests;
\* it is never negative, and it is 0 exactly when none of them is pending.
C35_WillPopCountsPendingPops ==
    /\ scene.will_pop_modals = PendingPops
    /\ scene.will_pop_modals >= 0
    /\ scene.will_pop_modals = 0 <=>
          \A i \in DOMAIN scene.pending : scene.pending[i][1] = "Push"

\* A confirmed target has requested a break of the modal stack, which
\* holds the target selector.
C35_Witness ==
    /\ scene.status = "running"
    /\ scene.will_pop_modals = 1
    /\ scene.pending = <<<<"Break">>>>
    /\ scene.modals # <<>>


\* The UnitMovers, open or about to be pushed, that hold their unit.
MovingUnits == {m \in OpenModals : m[1] = "UnitMover" /\ IsSome(m[2])}

\* The number of places that hold a unit: grid tiles, UnitMovers and
\* state.active_unit.
UnitHolders ==
    Cardinality({i \in DOMAIN grid.units : IsSome(grid.units[i])})
        + Cardinality({i \in DOMAIN scene.modals :
              scene.modals[i][1] = "UnitMover" /\ IsSome(scene.modals[i][2])})
        + Cardinality({i \in DOMAIN scene.pending :
              /\ scene.pending[i][1] = "Push"
              /\ scene.pending[i][2][1] = "UnitMover"
              /\ IsSome(scene.pending[i][2][2])})
        + (IF IsSome(scene.active_unit) THEN 1 ELSE 0)

\* The UnitMoved messages in the queue.
MovedMessages ==
    Cardinality({i \in DOMAIN scene.queue : scene.queue[i][1] = "UnitMoved"})

\* C36: a move neither duplicates nor loses the unit.  At most one of the
\* UnitMover and state.active_unit holds a unit, and units disappear only
\* in an attack; the UnitMover pushed by a confirmed move holds the unit
\* taken from origin and a path that ends on the confirmed target (empty
\* when the target is origin); when it is done it hands the unit to
\* state.active_unit and emits UnitMoved(origin, to) once, `to` being the
\* end of its path; handling UnitMoved puts that unit on `to` and leaves
\* state.active_unit empty.
C36_MoveKeepsTheUnit ==
    /\ [](Cardinality(MovingUnits) + (IF IsSome(scene.active_unit) THEN 1 ELSE 0) <= 1)
    /\ [](scene.status = "running" =>
            MovedMessages = (IF IsSome(scene.active_unit) THEN 1 ELSE 0))
    /\ [][scene'.status = "running" =>
            \/ UnitHolders' = UnitHolders
            \/ UnitHolders' < UnitHolders /\ scene_log'.event = "attacked"]_vars
    /\ [][(scene'.status = "running" /\ scene_log'.event = "moved") =>
            LET mv == scene'.pending[Len(scene'.pending)][2]
            IN  /\ mv[1] = "UnitMover"
                /\ mv[2] = scene_log'.unit
                /\ mv[3] = scene_log'.pos
                /\ GridUnit(grid', scene_log'.pos) = None
                /\ IF mv[4] = <<>> THEN scene_log'.target = scene_log'.pos
                   ELSE /\ mv[4][Len(mv[4])] = scene_log'.target
                        /\ scene_log'.target # scene_log'.pos]_vars
    /\ [][(/\ scene.status = "running"
           /\ scene'.status = "running"
           /\ Cardinality(MovingUnits) = 1
           /\ Cardinality(MovingUnits') = 0) =>
            LET mv == CHOOSE m \in MovingUnits : TRUE
                to == IF mv[4] = <<>> THEN mv[3] ELSE mv[4][Len(mv[4])]
            IN  /\ scene.queue = <<>>
                /\ scene'.queue = <<<<"ApplyOneModal">>, <<"UnitMoved", mv[3], to>>>>
                /\ scene'.active_unit = Some(<<to, Unwrap(mv[2])>>)
                /\ grid' = grid]_vars
    /\ [][(/\ scene.status = "running"
           /\ scene.queue # <<>>
           /\ Head(scene.queue)[1] = "UnitMoved"
           /\ scene'.inputs = scene.inputs
           /\ scene'.queue # scene.queue) =>
            /\ scene'.status = "running"
            /\ IsSome(scene.active_unit)
            /\ scene'.active_unit = None
            /\ GridUnit(grid', Head(scene.queue)[3]) = Some(Unwrap(scene.active_unit)[2])]_vars

\* UnitMoved has just been handled for a unit that has left its origin:
\* the unit is on the target and its menu is about to open.
C36_Witness ==
    /\ scene.status = "running"
    /\ scene.active_unit = None
    /\ scene.pending # <<>>
    /\ scene.pending[1][1] = "Push"
    /\ scene.pending[1][2][1] = "Menu"
    /\ scene.pending[1][2][4] # scene.pending[1][2][5]
    /\ IsSome(GridUnit(grid, scene.pending[1][2][5]))
    /\ GridUnit(grid, scene.pending[1][2][4]) = None


\* The units on the grid that have spent their action.
SpentUnits ==
    Cardinality({i \in DOMAIN grid.units :
                    IsSome(grid.units[i]) /\ Unwrap(grid.units[i]).spent})

\* C37: actions_left stays between 0 and max_actions_left, the spent units
\* on the grid are at most the actions spent, and the GridManager never
\* handles UnitSpent with no action left.
C37_ActionsCoverSpentUnits ==
    /\ [](/\ 0 <= turn_info.actions_left
          /\ turn_info.actions_left <= turn_info.max_actions_left
          /\ SpentUnits <= turn_info.max_actions_left - turn_info.actions_left)
    /\ [][~(/\ scene.status = "running"
            /\ scene.queue # <<>>
            /\ Head(scene.queue)[1] = "UnitSpent"
            /\ scene.will_pop_modals = 0
            /\ scene.modals = <<>>
            /\ turn_info.actions_left = 0
            /\ scene'.inputs = scene.inputs
            /\ scene'.queue # scene.queue)]_vars


\* C38: when the GridManager handles the CancelSelected(origin, target)
\* of a canceled menu, the grid is again the one the unit left when its
\* move was confirmed, with the unit on origin, and that unit is selected.
C38_CancelRestoresTheGrid ==
    [][(/\ scene.status = "running"
        /\ scene.queue # <<>>
        /\ Head(scene.queue)[1] = "CancelSelected"
        /\ scene.will_pop_modals = 0
        /\ scene.modals = <<>>
        /\ scene'.inputs = scene.inputs
        /\ scene'.queue # scene.queue) =>
          LET origin == Head(scene.queue)[2]
          IN  /\ scene'.status = "running"
              /\ grid' = scene_log.left
              /\ IsSome(GridUnit(grid', origin))
              /\ scene'.cursor = origin
              /\ scene'.selected =
                    Some([pos |-> origin, costs |-> GridPathFinder(grid', origin)])]_vars

\* The cost recorded for tile p in the running search, movement + 1 for a
\* tile with no recorded cost.
RecordedCost(p) ==
    IF p \in DOMAIN finder.costs THEN finder.costs[p] ELSE finder.movement + 1

RECURSIVE RecordedSum(_)
RecordedSum(tiles) ==
    IF tiles = {} THEN 0
    ELSE LET p == CHOOSE q \in tiles : TRUE
         IN  RecordedCost(p) + RecordedSum(tiles \ {p})

\* What is left of the search: twice the recorded costs of all tiles plus
\* the length of the work list.
SearchMeasure == 2 * RecordedSum(Positions(grid.size)) + Len(finder.to_be_searched)

C40_RangedYieldsRingsOnce ==
    (range.it.kind = "Ranged" /\ range.min <= range.max) =>
        /\ \A i, j \in DOMAIN range.yielded :
              i < j =>
                /\ range.yielded[i] # range.yielded[j]
                /\ Manhattan(range.yielded[i], range.it.pos)
                      >= Manhattan(range.yielded[j], range.it.pos)
        /\ \A i \in DOMAIN range.yielded :
              /\ range.min <= Manhattan(range.yielded[i], range.it.pos)
              /\ Manhattan(range.yielded[i], range.it.pos) <= range.max

\* A finished enumeration with min < max that yielded tiles of at least two
\* rings, several of them on the same ring.
C40_Witness ==
    /\ range.it.kind = "Ranged"
    /\ range.status = "finished"
    /\ 1 <= range.min
    /\ range.min < range.max
    /\ Len(range.yielded) >= 4
    /\ \E i, j \in DOMAIN range.yielded :
          Manhattan(range.yielded[i], range.it.pos)
              > Manhattan(range.yielded[j], range.it.pos)

====
